---------------------------- MODULE Spec2Model ----------------------------
(***************************************************************************)
(* Cursor pagination for MikroORM (delimaa/mikro-orm-cursor-pagination).   *)
(*                                                                         *)
(* The module models src/src/cursor.ts (class Cursor), the path helpers    *)
(* get/set of src/unnamed/part_001 (utils), and cursorPaginationFind of    *)
(* src/src/find.ts (lines 389-551).  The record store behind the           *)
(* EntityManager (em.count, em.find) is an external collaborator; it is    *)
(* modelled from its contract: filter evaluation with SQL null semantics,  *)
(* ordering by a QueryOrderMap, a row offset and a row limit.              *)
(*                                                                         *)
(* Six specifications share the model: Spec (pages and forward walks),     *)
(* SpecArgs (every shape of the pagination arguments), SpecOptions (find   *)
(* options passed along), SpecCursor (the Cursor class on its own),        *)
(* SpecReads (the two store reads of a call in flight, on a store that     *)
(* other clients write to and that may fail) and SpecPaths (the path       *)
(* helpers get and set on their own).                                      *)
(*                                                                         *)
(* JavaScript values are tagged records.  An object is an ordered list of  *)
(* entries (JavaScript keeps the insertion order of string keys, and the   *)
(* order of the keys of an ordering declaration is its precedence).  A     *)
(* dotted path "parent1.age" is kept as its list of segments               *)
(* <<"parent1", "age">>: split('.') and join('.') are inverse on segment   *)
(* names that hold no dot.                                                 *)
(***************************************************************************)
EXTENDS Integers, Sequences, FiniteSets, TLC

VARIABLES
    store,      \* the rows of the entity table (a set of entity objects)
    nullsSmall, \* the store's default null placement: TRUE = null sorts as the smallest value
    orderDecl,  \* the ordering declaration the client paginates with
    baseWhere,  \* the client's base filter (the `where` argument)
    phase,      \* "idle" | "calling" (a call is in progress) | "returned"
    args,       \* the pagination parameters of the last call
    result,     \* the outcome of the last call: a page or an error
    walk,       \* the node ids collected by the forward walk in progress, and its page size
    options,    \* the client's find options (the `options` argument)
    held,       \* the Cursor a client of the class holds (Cursor.fromEntity), or Null
    token,      \* the string at hand: the held Cursor's token, or one received from outside
    decoded,    \* what Cursor.fromBase64 made of the token: a Cursor or an error
    ordering,   \* what Cursor.orderBy last returned, with its direction
    clauses,    \* what Cursor.where last returned, with its direction
    reads,      \* the two store reads of the call in flight (em.count, em.find)
    access      \* the last call of a path helper (get / set): its arguments and outcome

\* the state of a pagination session, and of a use of the Cursor class alone
session == <<phase, args, result, walk, reads>>
algebra == <<held, token, decoded, ordering, clauses>>

vars == <<store, nullsSmall, orderDecl, baseWhere, options, session, algebra, access>>

-----------------------------------------------------------------------------
(* JavaScript values *)

Undefined == [t |-> "undefined"]
Null == [t |-> "null"]
Num(n) == [t |-> "number", v |-> n]
Str(s) == [t |-> "string", v |-> s]
Obj(entries) == [t |-> "object", v |-> entries]
Arr(items) == [t |-> "array", v |-> items]
Bool(b) == [t |-> "boolean", v |-> b]
\* a Date object, by its time value
Date(ms) == [t |-> "date", v |-> ms]
Throw(e) == [t |-> "throw", v |-> e]
Entry(key, value) == [k |-> key, v |-> value]

IsThrow(x) == x.t = "throw"
IsNullish(x) == x.t \in {"null", "undefined"}

\* Object.keys(o) for an object or an array (an array's keys are its indices)
KeyCount(o) == Len(o.v)

HasProp(o, key) == o.t = "object" /\ \E i \in 1..Len(o.v) : o.v[i].k = key

\* o[key]: undefined for a missing key and for a primitive; reading a property
\* of null or undefined is a TypeError and is handled by the callers.
Prop(o, key) ==
    IF HasProp(o, key)
    THEN o.v[CHOOSE i \in 1..Len(o.v) : o.v[i].k = key].v
    ELSE Undefined

\* o[key] = value: an existing key keeps its position, a new key is appended
Assign(o, key, value) ==
    IF HasProp(o, key)
    THEN Obj([i \in 1..Len(o.v) |-> IF o.v[i].k = key THEN Entry(key, value) ELSE o.v[i]])
    ELSE Obj(Append(o.v, Entry(key, value)))

-----------------------------------------------------------------------------
(* utils: set / get *)

\* set(o, path, value): creates the missing intermediate objects and assigns
\* the last segment; an empty last segment assigns nothing.  The code mutates
\* o in place; the model returns the mutated root.
RECURSIVE set(_, _, _)
set(o, paths, value) ==
    IF Len(paths) = 0 THEN o
    ELSE IF Len(paths) = 1
    THEN IF paths[1] = "" THEN o ELSE Assign(o, paths[1], value)
    ELSE LET key == Head(paths)
             child == IF Prop(o, key).t = "undefined" THEN Obj(<<>>) ELSE Prop(o, key)
         IN  IF child.t # "object" THEN Throw("TypeError")
             ELSE LET sub == set(child, Tail(paths), value)
                  IN  IF IsThrow(sub) THEN sub ELSE Assign(o, key, sub)

\* get(o, path): undefined as soon as a segment is undefined; a null met
\* before the last segment makes the next property read a TypeError.
RECURSIVE get(_, _)
get(o, paths) ==
    IF Len(paths) = 0 THEN o
    ELSE IF IsNullish(o) THEN Throw("TypeError")
    ELSE LET x == Prop(o, Head(paths))
         IN  IF x.t = "undefined" THEN Undefined ELSE get(x, Tail(paths))

\* what set(o, path, value) returns: `return o` after the loop has moved o
\* to the container of the last segment
setReturned(o, paths, value) ==
    IF IsThrow(set(o, paths, value)) THEN set(o, paths, value)
    ELSE get(set(o, paths, value), SubSeq(paths, 1, Len(paths) - 1))

-----------------------------------------------------------------------------
(* QueryOrder (the order tags of @mikro-orm/core) and the reversal table *)

UpperOrders ==
    {"ASC", "ASC_NULLS_LAST", "ASC_NULLS_FIRST", "DESC", "DESC_NULLS_LAST", "DESC_NULLS_FIRST"}
LowerOrders ==
    {"asc", "asc_nulls_last", "asc_nulls_first", "desc", "desc_nulls_last", "desc_nulls_first"}
QueryOrder == UpperOrders \cup LowerOrders

\* a variant that flips the direction and leaves the null placement where it is
reverseDirectionOnly ==
    [o \in QueryOrder |->
        CASE o = "ASC" -> "DESC"
          [] o = "ASC_NULLS_LAST" -> "DESC_NULLS_LAST"
          [] o = "ASC_NULLS_FIRST" -> "DESC_NULLS_FIRST"
          [] o = "DESC" -> "ASC"
          [] o = "DESC_NULLS_LAST" -> "ASC_NULLS_LAST"
          [] o = "DESC_NULLS_FIRST" -> "ASC_NULLS_FIRST"
          [] o = "asc" -> "desc"
          [] o = "asc_nulls_last" -> "desc_nulls_last"
          [] o = "asc_nulls_first" -> "desc_nulls_first"
          [] o = "desc" -> "asc"
          [] o = "desc_nulls_last" -> "asc_nulls_last"
          [] o = "desc_nulls_first" -> "asc_nulls_first"]

reverseQueryOrder ==
    [o \in QueryOrder |->
        CASE o = "ASC" -> "DESC"
          [] o = "ASC_NULLS_LAST" -> "DESC_NULLS_FIRST"
          [] o = "ASC_NULLS_FIRST" -> "DESC_NULLS_LAST"
          [] o = "DESC" -> "ASC"
          [] o = "DESC_NULLS_LAST" -> "ASC_NULLS_FIRST"
          [] o = "DESC_NULLS_FIRST" -> "ASC_NULLS_LAST"
          [] o = "asc" -> "desc"
          [] o = "asc_nulls_last" -> "desc_nulls_first"
          [] o = "asc_nulls_first" -> "desc_nulls_last"
          [] o = "desc" -> "asc"
          [] o = "desc_nulls_last" -> "asc_nulls_first"
          [] o = "desc_nulls_first" -> "asc_nulls_last"]

\* the two spellings of a tag share one `case` group in Cursor.where
CaseGroup(o) ==
    CASE o \in {"ASC", "asc"} -> "ASC"
      [] o \in {"ASC_NULLS_LAST", "asc_nulls_last"} -> "ASC_NULLS_LAST"
      [] o \in {"ASC_NULLS_FIRST", "asc_nulls_first"} -> "ASC_NULLS_FIRST"
      [] o \in {"DESC", "desc"} -> "DESC"
      [] o \in {"DESC_NULLS_LAST", "desc_nulls_last"} -> "DESC_NULLS_LAST"
      [] o \in {"DESC_NULLS_FIRST", "desc_nulls_first"} -> "DESC_NULLS_FIRST"
      [] OTHER -> "none"

-----------------------------------------------------------------------------
(* Cursor *)

\* new Cursor(state)
Cursor(state) == [t |-> "cursor", state |-> state]

\* one element of CursorState: [key, order, value]
Tuple(key, order, value) == [key |-> key, order |-> order, value |-> value]

\* walkQueryOrderMap: a string value is a leaf and pushes a tuple, an object
\* value is walked with the key appended to the prefix
RECURSIVE walkQueryOrderMap(_, _, _, _)
walkQueryOrderMap(entityObject, order, prevKeys, i) ==
    IF i > Len(order.v) THEN <<>>
    ELSE LET key == order.v[i].k
             value == order.v[i].v
             currKeys == Append(prevKeys, key)
             data == get(entityObject, currKeys)
             here == IF value.t = "string"
                     THEN <<Tuple(currKeys, value.v,
                                  IF data.t = "undefined" THEN Null ELSE data)>>
                     ELSE IF value.t = "object"
                     THEN walkQueryOrderMap(entityObject, value, currKeys, 1)
                     ELSE <<>>
         IN  here \o walkQueryOrderMap(entityObject, order, prevKeys, i + 1)

\* a variant that walks the clauses last to first
RECURSIVE walkAllLastFirst(_, _, _)
walkAllLastFirst(entityObject, orderByArr, i) ==
    IF i > Len(orderByArr) THEN <<>>
    ELSE walkAllLastFirst(entityObject, orderByArr, i + 1)
            \o walkQueryOrderMap(entityObject, orderByArr[i], <<>>, 1)

RECURSIVE walkAll(_, _, _)
walkAll(entityObject, orderByArr, i) ==
    IF i > Len(orderByArr) THEN <<>>
    ELSE walkQueryOrderMap(entityObject, orderByArr[i], <<>>, 1)
            \o walkAll(entityObject, orderByArr, i + 1)

\* wrap(entity).toObject(): the plain-data projection of a row (external);
\* the rows of the model are plain data already
toObject(entity) == entity

\* Cursor.fromEntity(entity, orderBy): the cursor state, or a thrown error
fromEntity(entity, orderBy) ==
    IF IsNullish(orderBy) THEN Throw("TypeError")
    ELSE IF (orderBy.t = "array" /\ Len(orderBy.v) = 0) \/ KeyCount(orderBy) = 0
    THEN Throw("Cannot create cursor with empty orderBy")
    ELSE LET orderByArr == IF orderBy.t = "array" THEN orderBy.v ELSE <<orderBy>>
             state == walkAll(toObject(entity), orderByArr, 1)
         IN  IF \E i \in 1..Len(state) : IsThrow(state[i].value)
             THEN Throw("TypeError")
             ELSE Cursor(state)

\* the ISO string Date.prototype.toJSON gives for a time value
ISOString(ms) == Str([iso |-> ms])

\* the entries of an object that JSON.stringify writes: those whose value is
\* not undefined
Written(entries) == SelectSeq(entries, LAMBDA e : e.v.t # "undefined")

\* JSON.stringify of one value, as the value JSON.parse reads back from the
\* text: inside an array undefined is written as null, a Date is written as
\* its ISO string, an object loses its undefined properties
RECURSIVE JSONValue(_)
JSONValue(v) ==
    CASE v.t = "undefined" -> Null
      [] v.t = "date" -> ISOString(v.v)
      [] v.t = "array" -> Arr([i \in 1..Len(v.v) |-> JSONValue(v.v[i])])
      [] v.t = "object" ->
            Obj([i \in 1..Len(Written(v.v)) |->
                    Entry(Written(v.v)[i].k, JSONValue(Written(v.v)[i].v))])
      [] OTHER -> v

\* a variant that writes the tuples last to first
toJSONReversed(state) ==
    Arr([i \in 1..Len(state) |->
            Arr(<<Str(state[Len(state) + 1 - i].key), Str(state[Len(state) + 1 - i].order),
                  state[Len(state) + 1 - i].value>>)])

\* toJSON(): JSON.stringify(this.state), an array of [path, tag, value]
\* arrays; the text is kept as the value it denotes
toJSON(state) ==
    Arr([i \in 1..Len(state) |->
            Arr(<<Str(state[i].key), Str(state[i].order), JSONValue(state[i].value)>>)])

\* a string: the base64 form of a JSON text, or not the form of any JSON text
Base64Of(json) == Str([base64 |-> TRUE, json |-> json])

\* toBase64(): the token, the base64 form of the JSON text
toBase64(state) == Base64Of(toJSON(state))

\* a string that is not the base64 form of any JSON text (e.g. 'some_cursor')
GarbageToken == Str([base64 |-> FALSE, json |-> Null])

\* a parsed JSON value that is an array of [string, string, value] arrays
IsTripleArray(json) ==
    /\ json.t = "array"
    /\ \A i \in 1..Len(json.v) :
          /\ json.v[i].t = "array"
          /\ Len(json.v[i].v) = 3
          /\ json.v[i].v[1].t = "string"
          /\ json.v[i].v[2].t = "string"

\* the parsed JSON value as a CursorState: an array of triples reads as the
\* list of its tuples, any other value is kept as JSON.parse returned it
\* (the code casts the parsed value to CursorState without looking at it)
parsedState(json) ==
    IF IsTripleArray(json)
    THEN [i \in 1..Len(json.v) |-> Tuple(json.v[i].v[1].v, json.v[i].v[2].v, json.v[i].v[3])]
    ELSE json

\* Cursor.fromBase64(base64): Buffer.from rejects a non-string, JSON.parse
\* rejects a text that is not JSON; the parsed value is taken as the state
fromBase64(base64) ==
    IF base64.t # "string" THEN Throw("TypeError")
    ELSE IF ~base64.v.base64 THEN Throw("SyntaxError")
    ELSE Cursor(parsedState(base64.v.json))

\* Cursor.orderBy({direction}): the state folded into one QueryOrderMap with set
RECURSIVE orderByFold(_, _, _, _)
orderByFold(state, direction, acc, i) ==
    IF i > Len(state) THEN acc
    ELSE orderByFold(state, direction,
            set(acc, state[i].key,
                Str(IF direction = "forward" THEN state[i].order
                    ELSE reverseQueryOrder[state[i].order])),
            i + 1)

buildOrderBy(state, direction) == orderByFold(state, direction, Obj(<<>>), 1)

\* the operand objects of Cursor.where
Op(operator, value) == Obj(<<Entry(operator, value)>>)
PropIs(prop, cond) == Obj(<<Entry(prop, cond)>>)

\* a variant that keeps the comparison and loses the null arm of the group
setGroupComparisonOnly(where, key, group, first, second) == set(where, key, first)

\* a variant that leaves the relation path out and puts the group at top level
setGroupAtTopLevel(where, key, group, first, second) ==
    set(where, <<group>>, Arr(<<PropIs(key[Len(key)], first), PropIs(key[Len(key)], second)>>))

\* paths = key.split('.'); prop = paths.pop(); paths.push(group):
\* set(where, paths.join('.'), [{[prop]: first}, {[prop]: second}])
setGroup(where, key, group, first, second) ==
    LET prop == key[Len(key)]
        paths == Append(SubSeq(key, 1, Len(key) - 1), group)
    IN  set(where, paths, Arr(<<PropIs(prop, first), PropIs(prop, second)>>))

\* a variant that takes the forward table for both directions
whereNullValueForwardOnly(where, key, order, direction) ==
    LET o == CaseGroup(order)
    IN  CASE o = "ASC" -> set(where, key, Op("$gt", Null))
          [] o = "ASC_NULLS_LAST" -> Null
          [] o = "DESC" -> set(where, key, Op("$lt", Null))
          [] o = "DESC_NULLS_FIRST" -> set(where, key, Op("$ne", Null))
          [] o = "ASC_NULLS_FIRST" -> set(where, key, Op("$ne", Null))
          [] o = "DESC_NULLS_LAST" -> Null
          [] OTHER -> where

\* a variant whose dropped cases leave the switch with the empty clause
\* (`break` for `return null`)
whereNullValueEmittingEmpty(where, key, order, direction) ==
    LET o == CaseGroup(order)
    IN  IF direction = "forward"
        THEN CASE o = "ASC" -> set(where, key, Op("$gt", Null))
               [] o = "DESC" -> set(where, key, Op("$lt", Null))
               [] o = "DESC_NULLS_FIRST" -> set(where, key, Op("$ne", Null))
               [] o = "ASC_NULLS_FIRST" -> set(where, key, Op("$ne", Null))
               [] OTHER -> where
        ELSE CASE o = "ASC" -> set(where, key, Op("$lt", Null))
               [] o = "ASC_NULLS_LAST" -> set(where, key, Op("$ne", Null))
               [] o = "DESC" -> set(where, key, Op("$gt", Null))
               [] o = "DESC_NULLS_LAST" -> set(where, key, Op("$ne", Null))
               [] OTHER -> where

\* the switch of Cursor.where for a null reference value; Null stands for
\* `return null` (the clause drops out)
whereNullValue(where, key, order, direction) ==
    LET o == CaseGroup(order)
    IN  IF direction = "forward"
        THEN CASE o = "ASC" -> set(where, key, Op("$gt", Null))
               [] o = "ASC_NULLS_LAST" -> Null
               [] o = "DESC" -> set(where, key, Op("$lt", Null))
               [] o = "DESC_NULLS_FIRST" -> set(where, key, Op("$ne", Null))
               [] o = "ASC_NULLS_FIRST" -> set(where, key, Op("$ne", Null))
               [] o = "DESC_NULLS_LAST" -> Null
               [] OTHER -> where
        ELSE CASE o = "ASC" -> set(where, key, Op("$lt", Null))
               [] o = "ASC_NULLS_LAST" -> set(where, key, Op("$ne", Null))
               [] o = "DESC" -> set(where, key, Op("$gt", Null))
               [] o = "DESC_NULLS_FIRST" -> Null
               [] o = "ASC_NULLS_FIRST" -> Null
               [] o = "DESC_NULLS_LAST" -> set(where, key, Op("$ne", Null))
               [] OTHER -> where

\* the switch of Cursor.where for a non-null reference value
whereValue(where, key, order, value, direction) ==
    LET o == CaseGroup(order)
        gt == Op("$gt", value)
        lt == Op("$lt", value)
        notNull == Op("$ne", Null)
    IN  IF direction = "forward"
        THEN CASE o = "ASC" -> set(where, key, gt)
               [] o = "ASC_NULLS_LAST" -> setGroup(where, key, "$or", gt, Null)
               [] o = "DESC" -> set(where, key, lt)
               [] o = "DESC_NULLS_FIRST" -> setGroup(where, key, "$and", lt, notNull)
               [] o = "ASC_NULLS_FIRST" -> setGroup(where, key, "$and", gt, notNull)
               [] o = "DESC_NULLS_LAST" -> setGroup(where, key, "$or", lt, Null)
               [] OTHER -> where
        ELSE CASE o = "ASC" -> set(where, key, lt)
               [] o = "ASC_NULLS_LAST" -> setGroup(where, key, "$and", lt, notNull)
               [] o = "DESC" -> set(where, key, gt)
               [] o = "DESC_NULLS_FIRST" -> setGroup(where, key, "$or", gt, Null)
               [] o = "ASC_NULLS_FIRST" -> setGroup(where, key, "$or", lt, Null)
               [] o = "DESC_NULLS_LAST" -> setGroup(where, key, "$and", gt, notNull)
               [] OTHER -> where

\* a variant that sets no equality for a key whose recorded value is null
RECURSIVE setEqualitiesSkippingNull(_, _, _, _)
setEqualitiesSkippingNull(where, state, i, j) ==
    IF j >= i THEN where
    ELSE setEqualitiesSkippingNull(
            IF state[j].value.t = "null" THEN where ELSE set(where, state[j].key, state[j].value),
            state, i, j + 1)

\* this.state.filter((_, j) => j < i).forEach(([key, _, value]) => set(where, key, value))
RECURSIVE setEqualities(_, _, _, _)
setEqualities(where, state, i, j) ==
    IF j >= i THEN where
    ELSE setEqualities(set(where, state[j].key, state[j].value), state, i, j + 1)

\* the clause of key position i (1-based), or Null when it drops out
whereClause(state, i, direction) ==
    LET key == state[i].key
        order == state[i].order
        value == state[i].value
        where == IF value.t = "null"
                 THEN whereNullValue(Obj(<<>>), key, order, direction)
                 ELSE whereValue(Obj(<<>>), key, order, value, direction)
    IN  IF where.t = "null" THEN Null ELSE setEqualities(where, state, i, 1)

\* Cursor.where({direction}) (buildWhereOr in find.ts): the clauses that did
\* not drop out, in key order
RECURSIVE whereFrom(_, _, _)
whereFrom(state, direction, i) ==
    IF i > Len(state) THEN <<>>
    ELSE LET c == whereClause(state, i, direction)
         IN  (IF c.t = "null" THEN <<>> ELSE <<c>>) \o whereFrom(state, direction, i + 1)

buildWhereOr(state, direction) == whereFrom(state, direction, 1)

-----------------------------------------------------------------------------
(* The record store behind em.count / em.find (external; from its contract) *)

\* the value of a column of a row; a column reached through a missing
\* relation is null (left join)
ColValue(ctx, key) ==
    IF ctx.t # "object" THEN Null
    ELSE LET x == Prop(ctx, key) IN IF x.t = "undefined" THEN Null ELSE x

ComparisonOps == {"$gt", "$lt", "$ne", "$gte", "$lte", "$eq"}

\* one comparison on a column value, SQL semantics: a comparison with null
\* is never true, `$ne: null` is IS NOT NULL, `$eq: null` is IS NULL
Compares(x, operator, operand) ==
    CASE operator = "$ne" /\ operand.t = "null" -> x.t # "null"
      [] operator = "$eq" /\ operand.t = "null" -> x.t = "null"
      [] x.t = "null" \/ operand.t = "null" -> FALSE
      [] operator = "$gt" -> x.v > operand.v
      [] operator = "$lt" -> x.v < operand.v
      [] operator = "$gte" -> x.v >= operand.v
      [] operator = "$lte" -> x.v <= operand.v
      [] operator = "$ne" -> x.v # operand.v
      [] operator = "$eq" -> x.v = operand.v
      [] OTHER -> FALSE

IsOperatorObject(v) ==
    v.t = "object" /\ Len(v.v) > 0 /\ \A i \in 1..Len(v.v) : v.v[i].k \in ComparisonOps

\* whether a row (or a related row) satisfies a FilterQuery object: every
\* entry must hold; $and / $or group a list of FilterQuery objects, an
\* empty $or matches no row
RECURSIVE Matches(_, _)
Matches(ctx, where) ==
    \A i \in 1..Len(where.v) :
        LET k == where.v[i].k
            v == where.v[i].v
        IN  CASE k = "$and" -> \A n \in 1..Len(v.v) : Matches(ctx, v.v[n])
              [] k = "$or" -> \E n \in 1..Len(v.v) : Matches(ctx, v.v[n])
              [] IsOperatorObject(v) ->
                    \A n \in 1..Len(v.v) : Compares(ColValue(ctx, k), v.v[n].k, v.v[n].v)
              [] v.t = "object" -> Matches(ColValue(ctx, k), v)
              [] OTHER -> Compares(ColValue(ctx, k), "$eq", v)

Matching(rows, where) == {r \in rows : Matches(r, where)}

\* em.count(entityName, where)
count(rows, where) == Cardinality(Matching(rows, where))

\* the ORDER BY list of a QueryOrderMap: its leaves in key order, depth first
RECURSIVE orderKeysOf(_, _, _)
orderKeysOf(order, prevKeys, i) ==
    IF i > Len(order.v) THEN <<>>
    ELSE LET value == order.v[i].v
             currKeys == Append(prevKeys, order.v[i].k)
         IN  (IF value.t = "string" THEN <<[key |-> currKeys, order |-> value.v]>>
              ELSE IF value.t = "object" THEN orderKeysOf(value, currKeys, 1)
              ELSE <<>>)
             \o orderKeysOf(order, prevKeys, i + 1)

RECURSIVE orderKeysOfAll(_, _)
orderKeysOfAll(maps, i) ==
    IF i > Len(maps) THEN <<>>
    ELSE orderKeysOf(maps[i], <<>>, 1) \o orderKeysOfAll(maps, i + 1)

OrderKeys(orderBy) ==
    IF orderBy.t = "array" THEN orderKeysOfAll(orderBy.v, 1)
    ELSE IF orderBy.t = "object" THEN orderKeysOf(orderBy, <<>>, 1)
    ELSE <<>>

\* the value of a dotted column of a row
RECURSIVE ColAt(_, _)
ColAt(ctx, paths) ==
    IF Len(paths) = 0 THEN ctx ELSE ColAt(ColValue(ctx, Head(paths)), Tail(paths))

IsAscending(order) == CaseGroup(order) \in {"ASC", "ASC_NULLS_LAST", "ASC_NULLS_FIRST"}

\* where nulls go for an order tag; a tag without a null policy leaves it
\* to the database (nullsDefaultSmall: null is the smallest value)
NullsFirst(order, nullsDefaultSmall) ==
    CASE CaseGroup(order) \in {"ASC_NULLS_FIRST", "DESC_NULLS_FIRST"} -> TRUE
      [] CaseGroup(order) \in {"ASC_NULLS_LAST", "DESC_NULLS_LAST"} -> FALSE
      [] OTHER -> (IsAscending(order) <=> nullsDefaultSmall)

\* x sorts strictly before y under one order tag
KeyBefore(x, y, order, nullsDefaultSmall) ==
    CASE x.t = "null" /\ y.t = "null" -> FALSE
      [] x.t = "null" -> NullsFirst(order, nullsDefaultSmall)
      [] y.t = "null" -> ~NullsFirst(order, nullsDefaultSmall)
      [] OTHER -> IF IsAscending(order) THEN x.v < y.v ELSE x.v > y.v

\* the sort tuple a sorts strictly before the sort tuple b (a, b: one value per key)
RECURSIVE TupleBefore(_, _, _, _, _)
TupleBefore(a, b, keys, nullsDefaultSmall, i) ==
    IF i > Len(keys) THEN FALSE
    ELSE IF KeyBefore(a[i], b[i], keys[i].order, nullsDefaultSmall) THEN TRUE
    ELSE IF KeyBefore(b[i], a[i], keys[i].order, nullsDefaultSmall) THEN FALSE
    ELSE TupleBefore(a, b, keys, nullsDefaultSmall, i + 1)

SortTuple(row, keys) == [i \in 1..Len(keys) |-> ColAt(row, keys[i].key)]

RowBefore(a, b, keys, nullsDefaultSmall) ==
    TupleBefore(SortTuple(a, keys), SortTuple(b, keys), keys, nullsDefaultSmall, 1)

\* every way the store may list the rows in the given order (rows with equal
\* sort tuples come in any order)
RECURSIVE SortedSeqs(_, _, _)
SortedSeqs(rows, keys, nullsDefaultSmall) ==
    IF rows = {} THEN {<<>>}
    ELSE UNION {
            {<<m>> \o rest : rest \in SortedSeqs(rows \ {m}, keys, nullsDefaultSmall)} :
            m \in {r \in rows : \A x \in rows : ~RowBefore(x, r, keys, nullsDefaultSmall)}}

Take(seq, n) == SubSeq(seq, 1, IF n < Len(seq) THEN n ELSE Len(seq))
Drop(seq, n) == SubSeq(seq, (IF n < Len(seq) THEN n ELSE Len(seq)) + 1, Len(seq))

\* the rows left of an ordered list by OFFSET and LIMIT
Window(seq, offset, limit) ==
    LET rest == IF offset.t = "number" THEN Drop(seq, offset.v) ELSE seq
    IN  IF limit.t = "number" THEN Take(rest, limit.v) ELSE rest

\* em.find(entityName, where, {limit, offset, orderBy, ...}): the possible
\* result lists; the other options (populate, ...) do not change which rows
\* come back
find(rows, where, findOptions, nullsDefaultSmall) ==
    {Window(s, Prop(findOptions, "offset"), Prop(findOptions, "limit")) :
        s \in SortedSeqs(Matching(rows, where), OrderKeys(Prop(findOptions, "orderBy")),
                         nullsDefaultSmall)}

-----------------------------------------------------------------------------
(* cursorPaginationFind *)

PaginationParams(first, after, last, before, orderBy) ==
    [first |-> first, after |-> after, last |-> last, before |-> before, orderBy |-> orderBy]

\* the number a value stands for in `first < 0`, `first + 1`, `totalCount > first`
ToNumber(x) == IF x.t = "number" THEN x.v ELSE 0

\* an error raised before any store access / after the store was read
Rejected(message) == [t |-> "throw", v |-> message, accessed |-> FALSE]
Failed(message) == [t |-> "throw", v |-> message, accessed |-> TRUE]

\* a variant of the checks that takes 0 for a negative size
validateRejectingZero(pagination) ==
    IF pagination.after.t # "undefined" /\ pagination.before.t # "undefined"
    THEN Rejected("Cannot use both 'after' and 'before' at the same time")
    ELSE IF pagination.first.t # "undefined" /\ pagination.last.t # "undefined"
    THEN Rejected("Cannot use both 'first' and 'last' at the same time")
    ELSE IF pagination.first.t # "undefined" /\ ToNumber(pagination.first) <= 0
    THEN Rejected("'first' must be greater than or equal to 0")
    ELSE IF pagination.last.t # "undefined" /\ ToNumber(pagination.last) <= 0
    THEN Rejected("'last' must be greater than or equal to 0")
    ELSE IF pagination.orderBy.t = "null"
    THEN Rejected("TypeError")
    ELSE IF pagination.orderBy.t # "undefined" /\ KeyCount(pagination.orderBy) = 0
    THEN Rejected("'orderBy' must be a non-empty object or array")
    ELSE Null

\* a variant of the checks that does not look at orderBy, so that an empty
\* orderBy is met by Cursor.fromEntity, after the fetch
validateWithoutOrderBy(pagination) ==
    IF pagination.after.t # "undefined" /\ pagination.before.t # "undefined"
    THEN Rejected("Cannot use both 'after' and 'before' at the same time")
    ELSE IF pagination.first.t # "undefined" /\ pagination.last.t # "undefined"
    THEN Rejected("Cannot use both 'first' and 'last' at the same time")
    ELSE IF pagination.first.t # "undefined" /\ ToNumber(pagination.first) < 0
    THEN Rejected("'first' must be greater than or equal to 0")
    ELSE IF pagination.last.t # "undefined" /\ ToNumber(pagination.last) < 0
    THEN Rejected("'last' must be greater than or equal to 0")
    ELSE Null

\* the checks at the head of cursorPaginationFind: the error they raise, or Null
validate(pagination) ==
    IF pagination.after.t # "undefined" /\ pagination.before.t # "undefined"
    THEN Rejected("Cannot use both 'after' and 'before' at the same time")
    ELSE IF pagination.first.t # "undefined" /\ pagination.last.t # "undefined"
    THEN Rejected("Cannot use both 'first' and 'last' at the same time")
    ELSE IF pagination.first.t # "undefined" /\ ToNumber(pagination.first) < 0
    THEN Rejected("'first' must be greater than or equal to 0")
    ELSE IF pagination.last.t # "undefined" /\ ToNumber(pagination.last) < 0
    THEN Rejected("'last' must be greater than or equal to 0")
    ELSE IF pagination.orderBy.t = "null"
    THEN Rejected("TypeError")
    ELSE IF pagination.orderBy.t # "undefined" /\ KeyCount(pagination.orderBy) = 0
    THEN Rejected("'orderBy' must be a non-empty object or array")
    ELSE Null

\* a variant that lets an orderBy take the call to the no-cursor branch
forwardPaginationUnlessOrderBy(pagination) ==
    /\ pagination.after.t # "undefined" /\ pagination.first.t # "undefined"
    /\ pagination.orderBy.t = "undefined"

forwardPagination(pagination) ==
    pagination.after.t # "undefined" /\ pagination.first.t # "undefined"

backwardPagination(pagination) ==
    pagination.before.t # "undefined" /\ pagination.last.t # "undefined"

noCursorPagination(pagination) ==
    pagination.orderBy.t # "undefined" /\ pagination.first.t # "undefined"

\* a variant that sends the boundary predicate alone, without the base filter
paginationWhereCursorOnly(where, state, direction) ==
    Obj(<<Entry("$or", Arr(buildWhereOr(state, direction)))>>)

\* { $and: [{ ...where }, { $or: cursor.buildWhereOr({ direction }) }] }
paginationWhere(where, state, direction) ==
    Obj(<<Entry("$and",
                Arr(<<where, Obj(<<Entry("$or", Arr(buildWhereOr(state, direction)))>>)>>))>>)

\* { ...options, limit, orderBy }: the caller's options with limit and
\* orderBy set by the function
paginationOptions(callerOptions, limit, orderBy) ==
    Assign(Assign(callerOptions, "limit", limit), "orderBy", orderBy)

\* a variant that fetches the page size only
overFetchLimitExact(size) == ToNumber(size)

\* limit: first + 1 / last + 1 (one more row, to know whether a further page exists)
overFetchLimit(size) == ToNumber(size) + 1

\* a variant that counts the rows of the paginated filter
countFilterPaginated(where, pWhere) == pWhere

\* em.count(entityName, where): the filter of the count is the base filter
countFilter(where, pWhere) == where

\* a variant of the first page that asks for one row more
noCursorLimitOneMore(first) == Num(ToNumber(first) + 1)

\* limit: pagination.first (the first page asks for exactly `first` rows)
noCursorLimit(first) == first

\* entities.length === size + 1: the sentinel row came back
sentinelReturned(entities, size) == Len(entities) = ToNumber(size) + 1

\* entities.pop() when the sentinel came back
dropSentinel(entities, size) ==
    IF sentinelReturned(entities, size) THEN SubSeq(entities, 1, Len(entities) - 1) ELSE entities

reverse(entities) == [i \in 1..Len(entities) |-> entities[Len(entities) + 1 - i]]

\* entities.map(entity => ({cursor: Cursor.fromEntity(entity, orderBy).toBase64(), node: entity}))
edgesOf(entities, orderBy) ==
    [i \in 1..Len(entities) |->
        LET c == fromEntity(entities[i], orderBy)
        IN  [cursor |-> IF IsThrow(c) THEN c ELSE toBase64(c.state), node |-> entities[i]]]

\* a variant that takes the first edge for the last
endCursorOfFirst(edges) == IF Len(edges) = 0 THEN Undefined ELSE edges[1].cursor

\* edges[0]?.cursor and edges[edges.length - 1]?.cursor
startCursorOf(edges) == IF Len(edges) = 0 THEN Undefined ELSE edges[1].cursor
endCursorOf(edges) == IF Len(edges) = 0 THEN Undefined ELSE edges[Len(edges)].cursor

\* the returned CursorPaginationResult, with the store calls that produced it
Page(mode, totalCount, edges, hasNextPage, hasPreviousPage, sent) ==
    IF \E i \in 1..Len(edges) : IsThrow(edges[i].cursor)
    THEN Failed((CHOOSE e \in {edges[i].cursor : i \in 1..Len(edges)} : IsThrow(e)).v)
    ELSE [t |-> "page", mode |-> mode, totalCount |-> totalCount, edges |-> edges,
          pageInfo |-> [hasNextPage |-> hasNextPage, hasPreviousPage |-> hasPreviousPage,
                        startCursor |-> startCursorOf(edges), endCursor |-> endCursorOf(edges)],
          sent |-> sent]

\* what reached the store: the filter of em.count, the filter and options of em.find
Sent(countWhere, findWhere, findOptions) ==
    [countWhere |-> countWhere, findWhere |-> findWhere, findOptions |-> findOptions]

\* the forward branch (after + first)
forwardPage(pagination, where, callerOptions, rows, nullsDefaultSmall) ==
    LET cursor == fromBase64(pagination.after)
    IN  IF IsThrow(cursor) THEN {Rejected(cursor.v)}
        ELSE LET first == pagination.first
                 pWhere == paginationWhere(where, cursor.state, "forward")
                 pOptions == paginationOptions(callerOptions, Num(overFetchLimit(first)),
                                               buildOrderBy(cursor.state, "forward"))
                 totalCount == count(rows, countFilter(where, pWhere))
                 orderBy == buildOrderBy(cursor.state, "forward")
             IN  {Page("forward", totalCount,
                       edgesOf(dropSentinel(entities, first), orderBy),
                       sentinelReturned(entities, first), TRUE,
                       Sent(countFilter(where, pWhere), pWhere, pOptions)) :
                    entities \in find(rows, pWhere, pOptions, nullsDefaultSmall)}

\* the backward branch (before + last)
backwardPage(pagination, where, callerOptions, rows, nullsDefaultSmall) ==
    LET cursor == fromBase64(pagination.before)
    IN  IF IsThrow(cursor) THEN {Rejected(cursor.v)}
        ELSE LET last == pagination.last
                 pWhere == paginationWhere(where, cursor.state, "backward")
                 pOptions == paginationOptions(callerOptions, Num(overFetchLimit(last)),
                                               buildOrderBy(cursor.state, "backward"))
                 totalCount == count(rows, countFilter(where, pWhere))
                 orderBy == buildOrderBy(cursor.state, "forward")
             IN  {Page("backward", totalCount,
                       edgesOf(reverse(dropSentinel(entities, last)), orderBy),
                       TRUE, sentinelReturned(entities, last),
                       Sent(countFilter(where, pWhere), pWhere, pOptions)) :
                    entities \in find(rows, pWhere, pOptions, nullsDefaultSmall)}

\* the no-cursor branch (orderBy + first)
noCursorPage(pagination, where, callerOptions, rows, nullsDefaultSmall) ==
    LET orderBy == pagination.orderBy
        first == pagination.first
        findOptions == paginationOptions(callerOptions, noCursorLimit(pagination.first),
                                         pagination.orderBy)
        totalCount == count(rows, where)
    IN  {Page("noCursor", totalCount, edgesOf(entities, orderBy),
              totalCount > ToNumber(first), FALSE,
              Sent(where, where, findOptions)) :
            entities \in find(rows, where, findOptions, nullsDefaultSmall)}

\* cursorPaginationFind(em, entityName, pagination, where, options): the
\* possible outcomes
cursorPaginationFind(pagination, where, callerOptions, rows, nullsDefaultSmall) ==
    LET invalid == validate(pagination)
    IN  IF invalid.t = "throw" THEN {invalid}
        ELSE IF forwardPagination(pagination)
        THEN forwardPage(pagination, where, callerOptions, rows, nullsDefaultSmall)
        ELSE IF backwardPagination(pagination)
        THEN backwardPage(pagination, where, callerOptions, rows, nullsDefaultSmall)
        ELSE IF noCursorPagination(pagination)
        THEN noCursorPage(pagination, where, callerOptions, rows, nullsDefaultSmall)
        ELSE {Rejected("Invalid pagination parameters")}

-----------------------------------------------------------------------------
(* The bounded world: rows, ordering declarations, base filters *)

MaxRows == 3
MaxFirst == 2
MaxPages == 5

\* a User row: id (primary key), age (nullable), parent1 (nullable relation)
User(id, age, parent1) ==
    Obj(<<Entry("id", Num(id)), Entry("age", age), Entry("parent1", parent1)>>)

Parent(id, age) == Obj(<<Entry("id", Num(id)), Entry("age", age)>>)

Ages == {Null, Num(1), Num(2)}
\* no parent, two parents of the same age, and a parent of unknown age
Parents == {Null, Parent(1, Num(1)), Parent(2, Num(1)), Parent(3, Null)}

IdOf(row) == Prop(row, "id").v

\* the tables of n rows with ids 1..n drawn from the given ages and parents
RECURSIVE Tables(_, _, _)
Tables(n, ages, parents) ==
    IF n = 0 THEN {{}}
    ELSE {t \cup {User(n, a, p)} : t \in Tables(n - 1, ages, parents), a \in ages, p \in parents}

TablesUpTo(n, ages, parents) == UNION {Tables(k, ages, parents) : k \in 0..n}

\* a sort spec is a list of (path, tag); the declaration a caller writes for
\* it is one object per key in a list ([{parent1: {age: 'ASC'}}, {id: 'ASC'}])
\* or one object holding every key ({age: 'ASC', id: 'ASC'})
Key(key, order) == [key |-> key, order |-> order]

DeclList(spec) == Arr([i \in 1..Len(spec) |-> set(Obj(<<>>), spec[i].key, Str(spec[i].order))])

RECURSIVE DeclFold(_, _, _)
DeclFold(spec, acc, i) ==
    IF i > Len(spec) THEN acc
    ELSE DeclFold(spec, set(acc, spec[i].key, Str(spec[i].order)), i + 1)

DeclObject(spec) == DeclFold(spec, Obj(<<>>), 1)

IdOrders == {"ASC", "DESC"}

\* orderings over the row's own columns
FlatDecls ==
    {DeclObject(<<Key(<<"age">>, t)>>) : t \in UpperOrders}
    \cup {DeclObject(<<Key(<<"age">>, t), Key(<<"id">>, u)>>) : t \in UpperOrders, u \in IdOrders}
    \cup {DeclList(<<Key(<<"age">>, t), Key(<<"id">>, "asc")>>) : t \in LowerOrders}
    \cup {DeclObject(<<Key(<<"id">>, u)>>) : u \in IdOrders}

\* orderings through the relation parent1
RelationDecls ==
    {DeclList(<<Key(<<"parent1", "age">>, t), Key(<<"age">>, "ASC"), Key(<<"parent1", "id">>, u)>>) :
        t \in {"ASC_NULLS_FIRST", "DESC"}, u \in IdOrders}
    \cup {DeclList(<<Key(<<"parent1", "age">>, "ASC_NULLS_LAST"), Key(<<"id">>, "ASC")>>)}

\* base filters: none, and a filter on age
NoFilter == Obj(<<>>)
AgeIsNull == Obj(<<Entry("age", Null)>>)
BaseFilters == {NoFilter, AgeIsNull}

-----------------------------------------------------------------------------
(* The client session: one call, or a forward walk, on an unchanging store *)

NoArgs == PaginationParams(Undefined, Undefined, Undefined, Undefined, Undefined)
NoWalk == [n |-> 0, ids |-> <<>>, pages |-> 0]
\* the default of the `options` parameter
NoOptions == Obj(<<>>)

\* no call made yet
SessionStart ==
    /\ phase = "idle"
    /\ args = NoArgs
    /\ result = Null
    /\ walk = NoWalk
    /\ reads = Null

\* the Cursor class and the path helpers are not used on their own
AlgebraUnused ==
    /\ held = Null
    /\ token = Null
    /\ decoded = Null
    /\ ordering = Null
    /\ clauses = Null
    /\ access = Null

InitFlat ==
    /\ store \in TablesUpTo(MaxRows, Ages, {Null})
    /\ orderDecl \in FlatDecls
    /\ baseWhere \in BaseFilters
    /\ nullsSmall \in BOOLEAN

InitRelation ==
    /\ store \in TablesUpTo(MaxRows, {Num(1), Num(2)}, Parents)
    /\ orderDecl \in RelationDecls
    /\ baseWhere = NoFilter
    /\ nullsSmall = TRUE

Init ==
    /\ (InitFlat \/ InitRelation)
    /\ options = NoOptions
    /\ SessionStart
    /\ AlgebraUnused

\* the token of a row's cursor, as a page hands it out (edge.cursor)
TokenOf(row) ==
    LET c == fromEntity(row, orderDecl) IN IF IsThrow(c) THEN GarbageToken ELSE toBase64(c.state)

\* the client calls cursorPaginationFind(em, User, pagination, baseWhere, options)
Request(pagination) ==
    /\ args' = pagination
    /\ phase' = "calling"
    /\ UNCHANGED <<store, nullsSmall, orderDecl, baseWhere, options, result, reads, algebra, access>>

\* {first, orderBy}
CallFirstPage(first) ==
    /\ phase = "idle"
    /\ Request(PaginationParams(Num(first), Undefined, Undefined, Undefined, orderDecl))
    /\ UNCHANGED walk

\* {first, after}
CallForward(first, row) ==
    /\ phase = "idle"
    /\ Request(PaginationParams(Num(first), TokenOf(row), Undefined, Undefined, Undefined))
    /\ UNCHANGED walk

\* {last, before}
CallBackward(last, row) ==
    /\ phase = "idle"
    /\ Request(PaginationParams(Undefined, Undefined, Num(last), TokenOf(row), Undefined))
    /\ UNCHANGED walk

\* the first page of a forward walk with page size n
WalkStart(n) ==
    /\ phase = "idle"
    /\ Request(PaginationParams(Num(n), Undefined, Undefined, Undefined, orderDecl))
    /\ walk' = [n |-> n, ids |-> <<>>, pages |-> 0]

\* the next page of the walk: {first: n, after: endCursor}, while hasNextPage
WalkNext ==
    /\ phase = "returned"
    /\ walk.n > 0
    /\ walk.pages < MaxPages
    /\ result.t = "page"
    /\ result.pageInfo.hasNextPage
    /\ Request(PaginationParams(Num(walk.n), result.pageInfo.endCursor, Undefined, Undefined, Undefined))
    /\ UNCHANGED walk

NodeIds(page) == [i \in 1..Len(page.edges) |-> IdOf(page.edges[i].node)]

\* what a walk keeps of the page it got: the ids of its nodes, in order
Collected(w, out) ==
    IF w.n = 0 THEN w
    ELSE [n |-> w.n,
          ids |-> IF out.t = "page" THEN w.ids \o NodeIds(out) ELSE w.ids,
          pages |-> w.pages + 1]

\* the call runs to its end: one of the outcomes of cursorPaginationFind
Serve ==
    /\ phase = "calling"
    /\ result' \in cursorPaginationFind(args, baseWhere, options, store, nullsSmall)
    /\ phase' = "returned"
    /\ walk' = Collected(walk, result')
    /\ UNCHANGED <<store, nullsSmall, orderDecl, baseWhere, options, args, reads, algebra, access>>

Next ==
    \/ \E first \in 0..MaxFirst : CallFirstPage(first)
    \/ \E first \in 0..MaxFirst, row \in store : CallForward(first, row)
    \/ \E last \in 0..MaxFirst, row \in store : CallBackward(last, row)
    \/ \E n \in 1..MaxFirst : WalkStart(n)
    \/ WalkNext
    \/ Serve

Spec == Init /\ [][Next]_vars

-----------------------------------------------------------------------------
(* The client session over every shape of the pagination arguments *)

ArgRows == 2

\* what a caller may pass as first / last, as after / before, as orderBy
SizeArgs == {Undefined, Null, Num(-1), Num(0), Num(1)}
\* the token of a cursor without any tuple (the base64 form of '[]')
EmptyStateToken == toBase64(<<>>)
TokenArgs == {Undefined, Null, GarbageToken, EmptyStateToken} \cup {TokenOf(r) : r \in store}
\* an ordering that is none of the orderings the tokens are made with
OtherDecl == DeclObject(<<Key(<<"id">>, "ASC")>>)
\* a declaration of one clause that names no key: [{}]
EmptyClauseDecl == Arr(<<Obj(<<>>)>>)
OrderByArgs == {Undefined, orderDecl, OtherDecl, Obj(<<>>), Arr(<<>>), EmptyClauseDecl}

InitArgs ==
    /\ store \in Tables(ArgRows, {Null, Num(1)}, {Null})
    /\ orderDecl \in {DeclObject(<<Key(<<"age">>, "ASC_NULLS_FIRST"), Key(<<"id">>, "ASC")>>),
                      DeclObject(<<Key(<<"id">>, "DESC")>>)}
    /\ baseWhere = NoFilter
    /\ nullsSmall = TRUE
    /\ options = NoOptions
    /\ SessionStart
    /\ AlgebraUnused

\* any combination of arguments
CallAny(first, after, last, before, orderBy) ==
    /\ phase = "idle"
    /\ Request(PaginationParams(first, after, last, before, orderBy))
    /\ UNCHANGED walk

NextArgs ==
    \/ \E first \in SizeArgs, after \in TokenArgs, last \in SizeArgs, before \in TokenArgs,
          orderBy \in OrderByArgs : CallAny(first, after, last, before, orderBy)
    \/ Serve

SpecArgs == InitArgs /\ [][NextArgs]_vars

-----------------------------------------------------------------------------
(* The client session with find options passed along *)

Populate == Entry("populate", Arr(<<Str("friends")>>))

\* what a caller may pass as options: nothing, a populate hint, and options
\* the type of the parameter leaves out (limit, offset, orderBy)
CallerOptions ==
    {NoOptions,
     Obj(<<Populate>>),
     Obj(<<Entry("offset", Num(1))>>),
     Obj(<<Entry("limit", Num(5)), Populate, Entry("orderBy", OtherDecl)>>),
     Obj(<<Entry("orderBy", Obj(<<>>)), Entry("limit", Num(0)), Entry("offset", Num(1)), Populate>>)}

InitOptions ==
    /\ store \in Tables(ArgRows, {Null, Num(1)}, {Null})
    /\ orderDecl \in {DeclObject(<<Key(<<"age">>, "ASC_NULLS_FIRST"), Key(<<"id">>, "ASC")>>),
                      DeclObject(<<Key(<<"id">>, "DESC")>>)}
    /\ baseWhere = NoFilter
    /\ nullsSmall = TRUE
    /\ options \in CallerOptions
    /\ SessionStart
    /\ AlgebraUnused

NextOptions ==
    \/ \E first \in 0..MaxFirst : CallFirstPage(first)
    \/ \E first \in 0..MaxFirst, row \in store : CallForward(first, row)
    \/ \E last \in 0..MaxFirst, row \in store : CallBackward(last, row)
    \/ Serve

SpecOptions == InitOptions /\ [][NextOptions]_vars

-----------------------------------------------------------------------------
(* The call with its two store reads in flight: the handler runs up to the *)
(* await of Promise.all([em.count(...), em.find(...)]), the store answers  *)
(* each read on its own, other clients write in between, and the handler   *)
(* resumes when Promise.all settles                                        *)

MaxWrites == 2

\* the errors the store may answer a read with
StoreErrors == {"connection lost", "query timeout"}

\* a promise: pending, fulfilled with a value, rejected with a reason
Pending == [t |-> "pending"]
Fulfilled(value) == [t |-> "fulfilled", value |-> value]
Reject(reason) == [t |-> "rejected", reason |-> reason]

\* the two reads issued: what was sent to em.count and em.find
Issued(sent) == [t |-> "issued", sent |-> sent]

\* the synchronous part of cursorPaginationFind, up to the await: the error it
\* throws, or the reads it issues
storeCalls(pagination, where, callerOptions) ==
    LET invalid == validate(pagination)
    IN  IF invalid.t = "throw" THEN invalid
        ELSE IF forwardPagination(pagination)
        THEN LET cursor == fromBase64(pagination.after)
             IN  IF IsThrow(cursor) THEN Rejected(cursor.v)
                 ELSE LET pWhere == paginationWhere(where, cursor.state, "forward")
                      IN  Issued(Sent(countFilter(where, pWhere), pWhere,
                               paginationOptions(callerOptions, Num(overFetchLimit(pagination.first)),
                                                 buildOrderBy(cursor.state, "forward"))))
        ELSE IF backwardPagination(pagination)
        THEN LET cursor == fromBase64(pagination.before)
             IN  IF IsThrow(cursor) THEN Rejected(cursor.v)
                 ELSE LET pWhere == paginationWhere(where, cursor.state, "backward")
                      IN  Issued(Sent(countFilter(where, pWhere), pWhere,
                               paginationOptions(callerOptions, Num(overFetchLimit(pagination.last)),
                                                 buildOrderBy(cursor.state, "backward"))))
        ELSE IF noCursorPagination(pagination)
        THEN Issued(Sent(where, where,
                         paginationOptions(callerOptions, noCursorLimit(pagination.first),
                                           pagination.orderBy)))
        ELSE Rejected("Invalid pagination parameters")

\* the part of cursorPaginationFind after the await: the page made of the
\* two values Promise.all was fulfilled with
assemblePage(pagination, sent, totalCount, entities) ==
    IF forwardPagination(pagination)
    THEN Page("forward", totalCount,
              edgesOf(dropSentinel(entities, pagination.first),
                      buildOrderBy(fromBase64(pagination.after).state, "forward")),
              sentinelReturned(entities, pagination.first), TRUE, sent)
    ELSE IF backwardPagination(pagination)
    THEN Page("backward", totalCount,
              edgesOf(reverse(dropSentinel(entities, pagination.last)),
                      buildOrderBy(fromBase64(pagination.before).state, "forward")),
              TRUE, sentinelReturned(entities, pagination.last), sent)
    ELSE Page("noCursor", totalCount, edgesOf(entities, pagination.orderBy),
              totalCount > ToNumber(pagination.first), FALSE, sent)

\* the reads that have been rejected, in the order they settled
rejections(r) == SelectSeq(r.settled, LAMBDA name : r[name].t = "rejected")

\* a variant that waits for em.count alone and takes a failed em.find for an
\* empty list
promiseAllCountOnly(r) ==
    IF r.count.t = "rejected" THEN Reject(r.count.reason)
    ELSE IF r.count.t = "fulfilled" /\ r.find.t # "pending"
    THEN Fulfilled(<<r.count.value, IF r.find.t = "fulfilled" THEN r.find.value ELSE <<>>>>)
    ELSE Pending

\* Promise.all([count, find]): rejected with the reason of the first read
\* that is rejected, fulfilled with both values once both reads are
\* fulfilled, pending until then
promiseAll(r) ==
    IF Len(rejections(r)) > 0 THEN Reject(r[rejections(r)[1]].reason)
    ELSE IF r.count.t = "fulfilled" /\ r.find.t = "fulfilled"
    THEN Fulfilled(<<r.count.value, r.find.value>>)
    ELSE Pending

\* rows other clients may insert
NewRows == {User(ArgRows + 1, Num(1), Null)}

InitReads ==
    /\ store \in Tables(ArgRows, {Null, Num(1)}, {Null})
    /\ orderDecl \in {DeclObject(<<Key(<<"age">>, "ASC_NULLS_FIRST"), Key(<<"id">>, "ASC")>>),
                      DeclObject(<<Key(<<"id">>, "DESC")>>)}
    /\ baseWhere = NoFilter
    /\ nullsSmall = TRUE
    /\ options = NoOptions
    /\ SessionStart
    /\ AlgebraUnused

\* the handler runs up to the await: it throws, or issues both reads
Issue ==
    /\ phase = "calling"
    /\ LET calls == storeCalls(args, baseWhere, options)
       IN  IF IsThrow(calls)
           THEN /\ result' = calls
                /\ phase' = "returned"
                /\ UNCHANGED reads
           ELSE /\ reads' = [sent |-> calls.sent, count |-> Pending, find |-> Pending,
                             settled |-> <<>>, seen |-> {store}, writes |-> 0]
                /\ phase' = "reading"
                /\ UNCHANGED result
    /\ UNCHANGED <<store, nullsSmall, orderDecl, baseWhere, options, args, walk, algebra, access>>

\* what is left alone while the reads are in flight
ReadFrame == UNCHANGED <<nullsSmall, orderDecl, baseWhere, options, phase, args, result, walk, algebra, access>>

\* the store answers em.count with the number of rows it holds now
CountAnswers ==
    /\ phase = "reading"
    /\ reads.count = Pending
    /\ reads' = [reads EXCEPT !.count = Fulfilled(count(store, reads.sent.countWhere)),
                              !.settled = Append(@, "count")]
    /\ UNCHANGED store
    /\ ReadFrame

\* the store answers em.find with the rows it holds now
FindAnswers ==
    /\ phase = "reading"
    /\ reads.find = Pending
    /\ \E entities \in find(store, reads.sent.findWhere, reads.sent.findOptions, nullsSmall) :
          reads' = [reads EXCEPT !.find = Fulfilled(entities), !.settled = Append(@, "find")]
    /\ UNCHANGED store
    /\ ReadFrame

\* the store fails a read
ReadFails(name, reason) ==
    /\ phase = "reading"
    /\ reads[name] = Pending
    /\ reads' = [reads EXCEPT ![name] = Reject(reason), !.settled = Append(@, name)]
    /\ UNCHANGED store
    /\ ReadFrame

\* another client inserts or deletes a row while the reads are in flight
Write(row) ==
    /\ phase = "reading"
    /\ reads.writes < MaxWrites
    /\ store' = IF row \in store THEN store \ {row} ELSE store \cup {row}
    /\ reads' = [reads EXCEPT !.seen = @ \cup {store'}, !.writes = @ + 1]
    /\ ReadFrame

\* Promise.all has settled and the handler resumes: it throws the reason of
\* the rejection, or assembles the page
Join ==
    /\ phase = "reading"
    /\ promiseAll(reads) # Pending
    /\ result' = IF promiseAll(reads).t = "rejected"
                 THEN Failed(promiseAll(reads).reason)
                 ELSE assemblePage(args, reads.sent, promiseAll(reads).value[1],
                                   promiseAll(reads).value[2])
    /\ phase' = "returned"
    /\ UNCHANGED <<store, nullsSmall, orderDecl, baseWhere, options, args, walk, reads, algebra, access>>

NextReads ==
    \/ \E first \in 0..MaxFirst : CallFirstPage(first)
    \/ \E first \in 0..MaxFirst, row \in store : CallForward(first, row)
    \/ \E last \in 0..MaxFirst, row \in store : CallBackward(last, row)
    \/ Issue
    \/ CountAnswers
    \/ FindAnswers
    \/ \E name \in {"count", "find"}, reason \in StoreErrors : ReadFails(name, reason)
    \/ \E row \in store \cup NewRows : Write(row)
    \/ Join

SpecReads == InitReads /\ [][NextReads]_vars

-----------------------------------------------------------------------------
(* The Cursor class used on its own: build, encode, decode, order *)

\* a row with columns of every kind of value: numbers, strings, booleans,
\* dates, lists, nested objects, a relation
Profile(id, age, name, active, born, tags, meta, parent1) ==
    Obj(<<Entry("id", Num(id)), Entry("age", age), Entry("name", name),
          Entry("active", active), Entry("born", born), Entry("tags", tags),
          Entry("meta", meta), Entry("parent1", parent1)>>)

CursorRows ==
    {Profile(1, Num(20), Str("a"), Bool(TRUE), Date(0), Arr(<<Str("x"), Num(1)>>),
             Obj(<<Entry("k", Null), Entry("u", Undefined)>>), Parent(2, Num(50))),
     Profile(2, Null, Str(""), Bool(FALSE), Null, Arr(<<>>),
             Obj(<<Entry("k", Arr(<<Bool(TRUE), Null>>))>>), Parent(3, Null)),
     Profile(3, Undefined, Str("b"), Null, Date(1), Arr(<<Arr(<<Num(2)>>)>>),
             Obj(<<>>), Null),
     Profile(4, Num(5), Str("c"), Bool(TRUE), Date(1), Null, Null, Undefined)}

Columns == {"age", "name", "active", "born", "tags", "meta"}

\* orderings over one column with every tag, and over several keys
CursorDecls ==
    {DeclObject(<<Key(<<c>>, t)>>) : c \in Columns, t \in QueryOrder}
    \cup {DeclList(<<Key(<<"parent1", "age">>, t), Key(<<"age">>, "ASC"),
                     Key(<<"parent1", "id">>, "DESC")>>) : t \in UpperOrders}
    \cup {DeclObject(<<Key(<<"name">>, t), Key(<<"tags">>, u), Key(<<"id">>, "asc")>>) :
            t \in LowerOrders, u \in {"DESC_NULLS_FIRST", "ASC_NULLS_LAST"}}
    \cup {DeclObject(<<Key(<<"age">>, "ASC"), Key(<<"id">>, "DESC")>>)}
    \cup {DeclObject(<<Key(<<"parent1", "age">>, "ASC_NULLS_FIRST"),
                        Key(<<"parent1", "id">>, "DESC"), Key(<<"id">>, "asc")>>)}

\* strings that reach Cursor.fromBase64 from outside: not base64 of JSON, or
\* the base64 form of a JSON text that is no array of triples, or of triples
\* with an unknown tag
ForeignTokens ==
    {GarbageToken,
     Base64Of(Obj(<<>>)),
     Base64Of(Num(5)),
     Base64Of(Str("abc")),
     Base64Of(Null),
     Base64Of(Arr(<<Num(1)>>)),
     Base64Of(Arr(<<Arr(<<Str(<<"id">>), Str("ASC")>>)>>)),
     Base64Of(Arr(<<Arr(<<Str(<<"id">>), Str("sideways"), Num(1)>>)>>))}

IsCursor(x) == x.t = "cursor"

InitCursor ==
    /\ store = CursorRows
    /\ orderDecl \in CursorDecls
    /\ baseWhere = NoFilter
    /\ nullsSmall = TRUE
    /\ options = NoOptions
    /\ SessionStart
    /\ AlgebraUnused

\* Cursor.fromEntity(row, orderDecl)
FromEntity(row) ==
    /\ held' = fromEntity(row, orderDecl)
    /\ token' = Null
    /\ decoded' = Null
    /\ ordering' = Null
    /\ clauses' = Null
    /\ UNCHANGED <<store, nullsSmall, orderDecl, baseWhere, options, session, access>>

\* held.toBase64()
ToBase64 ==
    /\ IsCursor(held)
    /\ token' = toBase64(held.state)
    /\ decoded' = Null
    /\ UNCHANGED <<store, nullsSmall, orderDecl, baseWhere, options, session, held, ordering, clauses, access>>

\* a string arrives from outside
Receive(string) ==
    /\ token' = string
    /\ held' = Null
    /\ decoded' = Null
    /\ ordering' = Null
    /\ clauses' = Null
    /\ UNCHANGED <<store, nullsSmall, orderDecl, baseWhere, options, session, access>>

\* Cursor.fromBase64(token)
FromBase64 ==
    /\ token # Null
    /\ decoded' = fromBase64(token)
    /\ UNCHANGED <<store, nullsSmall, orderDecl, baseWhere, options, session, held, token, ordering, clauses, access>>

\* held.orderBy({direction})
OrderBy(direction) ==
    /\ IsCursor(held)
    /\ ordering' = [direction |-> direction, orderBy |-> buildOrderBy(held.state, direction)]
    /\ UNCHANGED <<store, nullsSmall, orderDecl, baseWhere, options, session, held, token, decoded, clauses, access>>

\* held.where({direction})
Where(direction) ==
    /\ IsCursor(held)
    /\ clauses' = [direction |-> direction, where |-> buildWhereOr(held.state, direction)]
    /\ UNCHANGED <<store, nullsSmall, orderDecl, baseWhere, options, session, held, token, decoded, ordering, access>>

NextCursor ==
    \/ \E row \in store : FromEntity(row)
    \/ ToBase64
    \/ \E string \in ForeignTokens : Receive(string)
    \/ FromBase64
    \/ \E direction \in {"forward", "backward"} : OrderBy(direction)
    \/ \E direction \in {"forward", "backward"} : Where(direction)

SpecCursor == InitCursor /\ [][NextCursor]_vars

-----------------------------------------------------------------------------
(* The path helpers used on their own *)

\* objects a path is set in or read from: empty, flat, nested, and with a
\* null where a container could be
PathRoots ==
    {Obj(<<>>),
     Obj(<<Entry("a", Num(1))>>),
     Obj(<<Entry("d", Num(2)), Entry("a", Obj(<<Entry("e", Num(3))>>))>>),
     Obj(<<Entry("a", Obj(<<Entry("b", Obj(<<Entry("c", Num(1)), Entry("e", Num(3))>>))>>)),
           Entry("d", Num(2))>>),
     Obj(<<Entry("a", Null), Entry("d", Num(2))>>),
     Obj(<<Entry("a", Obj(<<Entry("b", Undefined)>>))>>)}

\* paths of one, two and three segments
PathArgs == {<<"a">>, <<"d">>, <<"a", "b">>, <<"x", "y">>, <<"a", "b", "c">>}

PathValues == {Num(7), Null, Str("ASC"), Obj(<<Entry("$gt", Num(5))>>)}

InitPaths ==
    /\ store = {}
    /\ orderDecl = OtherDecl
    /\ baseWhere = NoFilter
    /\ nullsSmall = TRUE
    /\ options = NoOptions
    /\ SessionStart
    /\ AlgebraUnused

\* set(o, path, value): the object after the call, and what the call returned
SetCall(o, paths, value) ==
    /\ access' = [op |-> "set", o |-> o, path |-> paths, value |-> value,
                  after |-> set(o, paths, value), returned |-> setReturned(o, paths, value)]
    /\ UNCHANGED <<store, nullsSmall, orderDecl, baseWhere, options, session, algebra>>

\* get(o, path): the object is left as it is
GetCall(o, paths) ==
    /\ access' = [op |-> "get", o |-> o, path |-> paths, value |-> Undefined,
                  after |-> o, returned |-> get(o, paths)]
    /\ UNCHANGED <<store, nullsSmall, orderDecl, baseWhere, options, session, algebra>>

NextPaths ==
    \/ \E o \in PathRoots, paths \in PathArgs, value \in PathValues : SetCall(o, paths, value)
    \/ \E o \in PathRoots, paths \in PathArgs : GetCall(o, paths)

SpecPaths == InitPaths /\ [][NextPaths]_vars

-----------------------------------------------------------------------------
(* Reference notions the properties are stated with *)

Returned == phase = "returned"

\* the call in progress passed validation and took the forward / backward
\* branch with a token that decodes
ForwardCall ==
    /\ validate(args).t # "throw"
    /\ forwardPagination(args)
    /\ ~IsThrow(fromBase64(args.after))

BackwardCall ==
    /\ validate(args).t # "throw"
    /\ ~forwardPagination(args)
    /\ backwardPagination(args)
    /\ ~IsThrow(fromBase64(args.before))

CursorCall == ForwardCall \/ BackwardCall

Direction == IF forwardPagination(args) THEN "forward" ELSE "backward"
PageSize == IF forwardPagination(args) THEN ToNumber(args.first) ELSE ToNumber(args.last)

\* the decoded state of the cursor of the call
RefState == fromBase64(IF forwardPagination(args) THEN args.after ELSE args.before).state

\* the multi-key order of a cursor, and the sort tuple of its reference row
StateKeys(state) == [i \in 1..Len(state) |-> [key |-> state[i].key, order |-> state[i].order]]
StateValues(state) == [i \in 1..Len(state) |-> state[i].value]

\* row sorts strictly after / before the reference row of the cursor
SortsAfter(row, state) ==
    TupleBefore(StateValues(state), SortTuple(row, StateKeys(state)), StateKeys(state), nullsSmall, 1)

SortsBefore(row, state) ==
    TupleBefore(SortTuple(row, StateKeys(state)), StateValues(state), StateKeys(state), nullsSmall, 1)

\* the rows beyond the cursor in the direction of travel
Beyond(rows, state, direction) ==
    {r \in rows : IF direction = "forward" THEN SortsAfter(r, state) ELSE SortsBefore(r, state)}

HasNullPolicy(order) == CaseGroup(order) \notin {"ASC", "DESC"}

\* every key of the cursor carries a null policy or is never null in the data
KeysNullSafe(state, rows) ==
    \A i \in 1..Len(state) :
        \/ HasNullPolicy(state[i].order)
        \/ /\ state[i].value.t # "null"
           /\ \A r \in rows : ColAt(r, state[i].key).t # "null"

\* the same for an ordering declaration
DeclNullSafe(orderBy, rows) ==
    \A i \in 1..Len(OrderKeys(orderBy)) :
        \/ HasNullPolicy(OrderKeys(orderBy)[i].order)
        \/ \A r \in rows : ColAt(r, OrderKeys(orderBy)[i].key).t # "null"

\* no two rows share their full sort tuple
UniqueSortTuples ==
    \A a, b \in store :
        a # b => SortTuple(a, OrderKeys(orderDecl)) # SortTuple(b, OrderKeys(orderDecl))

\* every row has the related row its sort keys go through
RelationsPresent ==
    \A r \in store : \A i \in 1..Len(OrderKeys(orderDecl)) :
        Len(OrderKeys(orderDecl)[i].key) > 1 => Prop(r, OrderKeys(orderDecl)[i].key[1]).t = "object"

\* the usage the walk properties are stated for: unique sort tuples, a null
\* policy on every key that holds a null, no missing related row
SoundOrdering == UniqueSortTuples /\ DeclNullSafe(orderDecl, store) /\ RelationsPresent

\* the rows the base filter selects
BaseRows == Matching(store, baseWhere)

\* the ids of rows listed in the order of the declaration
IdsOf(rowSeq) == [i \in 1..Len(rowSeq) |-> IdOf(rowSeq[i])]
InDeclOrder(rows) == {IdsOf(q) : q \in SortedSeqs(rows, OrderKeys(orderDecl), nullsSmall)}

\* the last n elements of a list
LastN(seq, n) == SubSeq(seq, IF n < Len(seq) THEN Len(seq) - n + 1 ELSE 1, Len(seq))

\* what the caller sees of an outcome
Outcome(o) ==
    IF o.t = "page"
    THEN [t |-> "page", totalCount |-> o.totalCount, edges |-> o.edges, pageInfo |-> o.pageInfo]
    ELSE [t |-> "throw", v |-> o.v]

-----------------------------------------------------------------------------
(* C1 *)

\* the rows matching the disjunction returned by Cursor.where
BoundaryRows(state, direction) ==
    Matching(store, Obj(<<Entry("$or", Arr(buildWhereOr(state, direction)))>>))

\* C1 - boundary predicate exactness: for a cursor whose keys each carry a
\* null policy or are never null in the data, the rows matching the
\* disjunction of Cursor.where in the direction of the call are exactly the
\* rows sorting strictly after (forward) / strictly before (backward) the
\* reference row in the cursor's multi-key order.
C1_BoundaryPredicateExact ==
    (Returned /\ CursorCall /\ KeysNullSafe(RefState, store))
        => BoundaryRows(RefState, Direction) = Beyond(store, RefState, Direction)

\* a backward call on a cursor of several keys whose reference value is null
\* under a null policy, with rows on both sides of the boundary
C1_Witness ==
    /\ Returned /\ BackwardCall /\ KeysNullSafe(RefState, store)
    /\ Len(RefState) >= 2
    /\ \E i \in 1..Len(RefState) : RefState[i].value.t = "null"
    /\ BoundaryRows(RefState, "backward") # {}
    /\ BoundaryRows(RefState, "backward") # store \ {r \in store : TokenOf(r) = args.before}

-----------------------------------------------------------------------------
(* C2 *)

\* the walk stopped: the last call failed or reported no further page
WalkEnded == Returned /\ walk.n > 0 /\ (result.t = "throw" \/ ~result.pageInfo.hasNextPage)

\* C2 - forward walk completeness: on a store with unique sort tuples (null
\* policies on the keys that hold nulls, no missing related row), the walk
\* {first: n, orderBy},
\* then {first: n, after: endCursor} while hasNextPage, ends after finitely
\* many calls, and the concatenation of its pages is exactly the rows
\* matching the base filter, in orderBy order, each row once.
C2_ForwardWalkComplete ==
    (Returned /\ walk.n > 0 /\ SoundOrdering)
        => /\ walk.pages <= Cardinality(BaseRows) + 1
           /\ WalkEnded => (result.t = "page" /\ walk.ids \in InDeclOrder(BaseRows))

-----------------------------------------------------------------------------
(* C3 *)

\* the row the cursor of a backward call was made from
BeforeRows == {r \in store : TokenOf(r) = args.before}

\* the rows matching the base filter that precede the reference row in the
\* order of the declaration
Preceding(ref) ==
    {r \in BaseRows : RowBefore(r, ref, OrderKeys(orderDecl), nullsSmall)}

\* C3 - backward page content and order: on a store with unique sort tuples
\* (null policies on the keys that hold nulls, no missing related row),
\* {last: n, before: c}
\* returns the min(n, k) rows matching the base filter that immediately
\* precede the reference row of c, listed in forward order.
C3_BackwardPageInForwardOrder ==
    (Returned /\ BackwardCall /\ SoundOrdering)
        => \A ref \in BeforeRows :
              /\ result.t = "page"
              /\ \E ids \in InDeclOrder(Preceding(ref)) :
                    IdsOf([i \in 1..Len(result.edges) |-> result.edges[i].node])
                        = LastN(ids, ToNumber(args.last))

-----------------------------------------------------------------------------
(* C4 *)

\* the flag the over-fetch decides: hasNextPage forward, hasPreviousPage backward
FurtherPageFlag ==
    IF Direction = "forward" THEN result.pageInfo.hasNextPage ELSE result.pageInfo.hasPreviousPage

OverFetchSentinel ==
    /\ Prop(result.sent.findOptions, "limit") = Num(PageSize + 1)
    /\ Len(result.edges) <= PageSize
    /\ FurtherPageFlag <=> Cardinality(Beyond(BaseRows, RefState, Direction)) > PageSize

\* C4 as stated - over-fetch sentinel, for every cursor: the fetch is limited
\* to first+1 (last+1) rows, the page has at most first (last) edges, and
\* hasNextPage (hasPreviousPage) is true iff more than first (last) rows
\* matching the base filter lie beyond the cursor; for every size >= 0.
C4_OverFetchSentinelAnyCursor ==
    (Returned /\ CursorCall /\ result.t = "page") => OverFetchSentinel

\* C4 - over-fetch sentinel, for a cursor whose keys each carry a null
\* policy or are never null in the data: the fetch is limited to first+1
\* (last+1) rows, the page has at most first (last) edges, and hasNextPage
\* (hasPreviousPage) is true iff more than first (last) rows matching the
\* base filter lie beyond the cursor; for every size >= 0, including 0.
C4_OverFetchSentinel ==
    (Returned /\ CursorCall /\ result.t = "page" /\ KeysNullSafe(RefState, store))
        => OverFetchSentinel

\* a forward call of size 0 that reports a next page and returns no edge
C4_Witness ==
    /\ Returned /\ ForwardCall /\ result.t = "page" /\ KeysNullSafe(RefState, store)
    /\ PageSize = 0
    /\ result.pageInfo.hasNextPage
    /\ result.edges = <<>>

-----------------------------------------------------------------------------
(* C5 *)

\* some row matching the base filter sorts after the last returned edge
\* (after the cursor position when the page is empty; a first page that is
\* empty has every matching row after it)
RowAfterPage ==
    IF result.edges # <<>>
    THEN \E r \in BaseRows :
            RowBefore(result.edges[Len(result.edges)].node, r, OrderKeys(orderDecl), nullsSmall)
    ELSE IF result.mode = "noCursor" THEN BaseRows # {}
    ELSE \E r \in BaseRows : SortsAfter(r, RefState)

\* some row matching the base filter sorts before the first returned edge
\* (before the cursor position when the page is empty)
RowBeforePage ==
    IF result.edges # <<>>
    THEN \E r \in BaseRows :
            RowBefore(r, result.edges[1].node, OrderKeys(orderDecl), nullsSmall)
    ELSE IF result.mode = "noCursor" THEN FALSE
    ELSE \E r \in BaseRows : SortsBefore(r, RefState)

\* C5 - the page flags report whether a next / previous page is available:
\* in every mode, on a store with unique sort tuples (null policies on the
\* keys that hold nulls, no missing related row), hasNextPage is true iff a
\* row matching the base
\* filter sorts after the last returned edge, and hasPreviousPage is true iff
\* a row matching the base filter sorts before the first returned edge.
C5_FlagsReportAvailability ==
    (Returned /\ result.t = "page" /\ SoundOrdering)
        => /\ result.pageInfo.hasNextPage <=> RowAfterPage
           /\ result.pageInfo.hasPreviousPage <=> RowBeforePage

-----------------------------------------------------------------------------
(* C6 *)

\* the call in progress is a first-page request {first, orderBy}
FirstPageCall ==
    /\ validate(args).t # "throw"
    /\ ~forwardPagination(args)
    /\ ~backwardPagination(args)
    /\ args.after.t = "undefined" /\ args.before.t = "undefined"
    /\ noCursorPagination(args)

\* C6 - first page ({first, orderBy}, no cursor): the fetch is limited to
\* exactly `first` rows ordered by the caller's orderBy (no over-fetch),
\* hasNextPage equals (totalCount > first), hasPreviousPage is false.
C6_FirstPage ==
    (Returned /\ FirstPageCall /\ result.t = "page")
        => /\ Prop(result.sent.findOptions, "limit") = args.first
           /\ Prop(result.sent.findOptions, "orderBy") = args.orderBy
           /\ Len(result.edges) <= ToNumber(args.first)
           /\ result.pageInfo.hasNextPage <=> (result.totalCount > ToNumber(args.first))
           /\ ~result.pageInfo.hasPreviousPage

\* a full first page with more rows behind it
C6_Witness ==
    /\ Returned /\ FirstPageCall /\ result.t = "page"
    /\ ToNumber(args.first) >= 1
    /\ Len(result.edges) = ToNumber(args.first)
    /\ result.pageInfo.hasNextPage
    /\ result.totalCount > Len(result.edges)

-----------------------------------------------------------------------------
(* C7 *)

\* C7 - totalCount invariance: in every mode, for every first/last and every
\* cursor, totalCount is the number of rows matching the base filter alone,
\* and the count is asked with the base filter alone.
C7_TotalCountInvariance ==
    (Returned /\ result.t = "page")
        => /\ result.totalCount = Cardinality(BaseRows)
           /\ result.sent.countWhere = baseWhere

\* an empty page behind the last row, under a base filter that leaves rows
\* out, still reports every matching row
C7_Witness ==
    /\ Returned /\ ForwardCall /\ result.t = "page"
    /\ result.edges = <<>>
    /\ PageSize >= 1
    /\ result.totalCount >= 1
    /\ result.totalCount < Cardinality(store)

-----------------------------------------------------------------------------
(* C8 *)

\* the outcomes the caller can see of a call with the given filter and rows
Outcomes(where, rows) ==
    {Outcome(o) : o \in cursorPaginationFind(args, where, options, rows, nullsSmall)}

\* C8 - base filter merge: in every mode, paginating the store with base
\* filter F gives the same outcomes (edges, order, flags, totalCount) as
\* paginating the rows satisfying F with an empty base filter; every
\* returned node satisfies F.
C8_BaseFilterMerge ==
    Returned
        => /\ Outcome(result) \in Outcomes(NoFilter, BaseRows)
           /\ Outcomes(baseWhere, store) = Outcomes(NoFilter, BaseRows)
           /\ result.t = "page"
                => \A i \in 1..Len(result.edges) : Matches(result.edges[i].node, baseWhere)

\* a cursor call under a filter that leaves out a row lying beyond the cursor
C8_Witness ==
    /\ Returned /\ CursorCall /\ result.t = "page"
    /\ baseWhere # NoFilter
    /\ result.edges # <<>>
    /\ Beyond(store, RefState, Direction) \ BaseRows # {}

-----------------------------------------------------------------------------
(* C9 *)

Supplied(x) == x.t # "undefined"

\* none of first, after, last, before is null
NoNullArgs ==
    /\ args.first.t # "null" /\ args.after.t # "null"
    /\ args.last.t # "null" /\ args.before.t # "null"

\* the mode the arguments ask for
AskedMode ==
    IF Supplied(args.after) /\ Supplied(args.first) THEN "forward"
    ELSE IF Supplied(args.before) /\ Supplied(args.last) THEN "backward"
    ELSE IF /\ ~Supplied(args.after) /\ ~Supplied(args.before)
            /\ Supplied(args.first) /\ Supplied(args.orderBy) THEN "noCursor"
    ELSE "none"

\* C9 - mode selection: after validation, forward runs iff after and first
\* are supplied, backward iff before and last are supplied, first-page only
\* when no cursor at all is supplied together with first and orderBy; every
\* other combination fails with the invalid-pagination-parameters error.
C9_ModeSelection ==
    (Returned /\ NoNullArgs /\ validate(args).t # "throw")
        => /\ AskedMode = "none" => result = Rejected("Invalid pagination parameters")
           /\ result.t = "page" => result.mode = AskedMode

-----------------------------------------------------------------------------
(* C10 *)

Absent(x) == IF x.t = "null" THEN Undefined ELSE x

\* the arguments with every null among first, after, last, before left out
WithoutNulls(pagination) ==
    PaginationParams(Absent(pagination.first), Absent(pagination.after),
                     Absent(pagination.last), Absent(pagination.before), pagination.orderBy)

\* C10 - nullish arguments equal absent arguments: a call with null among
\* first, after, last, before has the outcome (the same page or the same
\* error) of the call with those arguments absent.
C10_NullishIsAbsent ==
    Returned
        => Outcome(result) \in
              {Outcome(o) : o \in cursorPaginationFind(WithoutNulls(args),
                                                            baseWhere, options, store, nullsSmall)}

-----------------------------------------------------------------------------
(* C11 *)

\* the arguments with another orderBy
WithOrderBy(pagination, orderBy) ==
    PaginationParams(pagination.first, pagination.after, pagination.last, pagination.before,
                     orderBy)

\* what may be passed as orderBy next to a cursor: nothing, or a non-empty ordering
CursorOrderBys == {Undefined, orderDecl, OtherDecl}

\* a valid call {first, after} or {last, before} whose token decodes
AfterFirstGiven ==
    /\ validate(args).t # "throw"
    /\ Supplied(args.after) /\ Supplied(args.first)
    /\ ~IsThrow(fromBase64(args.after))

BeforeLastGiven ==
    /\ validate(args).t # "throw"
    /\ Supplied(args.before) /\ Supplied(args.last)
    /\ ~IsThrow(fromBase64(args.before))

\* the outcomes the caller can see of the call made with the given arguments
OutcomesOf(pagination) ==
    {Outcome(o) : o \in cursorPaginationFind(pagination, baseWhere, options, store, nullsSmall)}

\* C11 - orderBy is ignored when a cursor is used: a forward call {first,
\* after} and a backward call {last, before} return the same page whatever
\* is passed as orderBy (nothing, or any non-empty ordering, even one that
\* differs from the cursor's); the ordering and the boundary sent to the
\* store are those of the tuples in the token.
C11_OrderByIgnoredWithCursor ==
    (Returned /\ (AfterFirstGiven \/ BeforeLastGiven) /\ args.orderBy \in CursorOrderBys)
        => /\ Outcome(result) \in OutcomesOf(WithOrderBy(args, Undefined))
           /\ \A orderBy \in CursorOrderBys :
                 OutcomesOf(WithOrderBy(args, orderBy)) = OutcomesOf(WithOrderBy(args, Undefined))
           /\ result.t = "page"
                => LET state == fromBase64(IF Supplied(args.after) THEN args.after
                                          ELSE args.before).state
                       direction == IF Supplied(args.after) THEN "forward" ELSE "backward"
                   IN  /\ Prop(result.sent.findOptions, "orderBy") = buildOrderBy(state, direction)
                       /\ result.sent.findWhere = paginationWhere(baseWhere, state, direction)

\* a forward call that passes an ordering other than the cursor's and gets
\* the rows that follow the cursor in the cursor's order
C11_Witness ==
    /\ Returned /\ AfterFirstGiven /\ result.t = "page"
    /\ args.orderBy = OtherDecl
    /\ buildOrderBy(fromBase64(args.after).state, "forward") # OtherDecl
    /\ result.edges # <<>>
    /\ result.mode = "forward"

-----------------------------------------------------------------------------
(* C12 *)

IsNegative(x) == x.t = "number" /\ x.v < 0

\* C12 - argument validation: a call fails whenever after and before are
\* both present, or first and last are both present, or a present first or
\* last is negative; a present first / last that is >= 0 (0 included) is
\* never rejected by the sign checks.
C12_ArgumentValidation ==
    Returned
        => /\ (Supplied(args.after) /\ Supplied(args.before))
                => result = Rejected("Cannot use both 'after' and 'before' at the same time")
           /\ (Supplied(args.first) /\ Supplied(args.last)) => IsThrow(result)
           /\ (IsNegative(args.first) \/ IsNegative(args.last)) => IsThrow(result)
           /\ (Supplied(args.first) /\ ~IsNegative(args.first))
                => ~(IsThrow(result) /\ result.v = "'first' must be greater than or equal to 0")
           /\ (Supplied(args.last) /\ ~IsNegative(args.last))
                => ~(IsThrow(result) /\ result.v = "'last' must be greater than or equal to 0")

\* a backward call of size 0 goes through and returns a page
C12_Witness ==
    /\ Returned
    /\ args.last = Num(0)
    /\ Supplied(args.before)
    /\ result.t = "page"
    /\ result.edges = <<>>

-----------------------------------------------------------------------------
(* C13 *)

\* the causes of failure that are the caller's: invalid arguments, no mode
\* matching, a token that does not decode, an empty orderBy
InvalidArgs == validate(args).t = "throw"

NoModeMatches ==
    /\ ~InvalidArgs
    /\ ~forwardPagination(args) /\ ~backwardPagination(args) /\ ~noCursorPagination(args)

UndecodableToken ==
    /\ ~InvalidArgs
    /\ \/ forwardPagination(args) /\ IsThrow(fromBase64(args.after))
       \/ /\ ~forwardPagination(args) /\ backwardPagination(args)
          /\ IsThrow(fromBase64(args.before))

EmptyOrderByFailure ==
    result.v \in {"'orderBy' must be a non-empty object or array",
                  "Cannot create cursor with empty orderBy"}

\* em.count or em.find was called during the call that gave this outcome
StoreAccessed(outcome) == IF outcome.t = "page" THEN TRUE ELSE outcome.accessed

\* C13 - fail-fast ordering: when a call fails because of invalid pagination
\* arguments, an empty orderBy declaration, no matching mode or an
\* undecodable cursor token, neither em.count nor em.find was called during
\* that call.
C13_FailFast ==
    (Returned /\ IsThrow(result)
        /\ (InvalidArgs \/ NoModeMatches \/ UndecodableToken \/ EmptyOrderByFailure))
        => ~StoreAccessed(result)

\* a forward call with a string that is no token fails in the decoding
C13_Witness ==
    /\ Returned /\ IsThrow(result)
    /\ UndecodableToken
    /\ forwardPagination(args)
    /\ args.after = GarbageToken
    /\ result.v = "SyntaxError"
    /\ ~StoreAccessed(result)

-----------------------------------------------------------------------------
(* C14 *)

\* a value JSON can represent: a number, a string, a boolean, null, and
\* lists and objects of these
RECURSIVE Representable(_)
Representable(v) ==
    CASE v.t \in {"number", "string", "boolean", "null"} -> TRUE
      [] v.t = "array" -> \A i \in 1..Len(v.v) : Representable(v.v[i])
      [] v.t = "object" -> \A i \in 1..Len(v.v) : Representable(v.v[i].v)
      [] OTHER -> FALSE

\* the held cursor was encoded and its token decoded
RoundTripDone == IsCursor(held) /\ token # Null /\ decoded # Null

\* C14 - token round trip: for a cursor whose values are JSON-representable,
\* Cursor.fromBase64(c.toBase64()) has the state of c: as many tuples, in
\* the same order, with the same path, tag and value in each.
C14_TokenRoundTrip ==
    (RoundTripDone /\ \A i \in 1..Len(held.state) : Representable(held.state[i].value))
        => /\ IsCursor(decoded)
           /\ Len(decoded.state) = Len(held.state)
           /\ \A i \in 1..Len(held.state) :
                 /\ decoded.state[i].key = held.state[i].key
                 /\ decoded.state[i].order = held.state[i].order
                 /\ decoded.state[i].value = held.state[i].value

\* a round trip of a cursor of several keys, one through a relation, one
\* holding null
C14_Witness ==
    /\ RoundTripDone /\ IsCursor(decoded)
    /\ Len(held.state) >= 3
    /\ \E i \in 1..Len(held.state) : Len(held.state[i].key) = 2
    /\ \E i \in 1..Len(held.state) : held.state[i].value = Null
    /\ \A i \in 1..Len(held.state) : Representable(held.state[i].value)
    /\ decoded.state = held.state

-----------------------------------------------------------------------------
(* C15 *)

\* the string is the token of some cursor: the base64 form of a JSON array
\* whose elements are all [path string, known order tag, value] triples
IsCursorToken(string) ==
    /\ string.t = "string"
    /\ string.v.base64
    /\ IsTripleArray(string.v.json)
    /\ \A i \in 1..Len(string.v.json.v) : string.v.json.v[i].v[2].v \in QueryOrder

\* C15 - fail-closed decoding: for a string that is not the token of some
\* cursor, Cursor.fromBase64 raises an error; it never returns a Cursor
\* whose state is not a list of [path, known tag, value] triples.
C15_FailClosedDecoding ==
    (token # Null /\ decoded # Null /\ ~IsCursorToken(token)) => IsThrow(decoded)

-----------------------------------------------------------------------------
(* C16 *)

\* the declaration names no sort key: its normalized ordering is empty
NormalizedEmpty(orderBy) == orderBy.t \in {"object", "array"} /\ OrderKeys(orderBy) = <<>>

\* the arguments of a first-page request: first and orderBy, nothing else
FirstPageArgs ==
    /\ Supplied(args.first) /\ ~IsNegative(args.first) /\ Supplied(args.orderBy)
    /\ ~Supplied(args.after) /\ ~Supplied(args.before) /\ ~Supplied(args.last)

\* C16 - an empty sort spec is rejected: Cursor.fromEntity, and
\* cursorPaginationFind in first-page mode, fail with an error whenever the
\* normalized ordering is empty (an empty array, an empty object, and a
\* declaration all of whose clauses are empty, such as [{}]); no cursor with
\* an empty tuple sequence is ever issued.
C16_EmptySortSpecRejected ==
    Returned
        => /\ NormalizedEmpty(args.orderBy)
                => /\ \A row \in store : IsThrow(fromEntity(row, args.orderBy))
                   /\ FirstPageArgs => IsThrow(result)
           /\ result.t = "page"
                => \A i \in 1..Len(result.edges) : result.edges[i].cursor # EmptyStateToken

-----------------------------------------------------------------------------
(* C17 *)

OwnedOptions == {"limit", "offset", "orderBy"}

\* the limit and the orderBy the function computes for the page it returned
ComputedLimit ==
    IF result.mode = "noCursor" THEN args.first ELSE Num(PageSize + 1)

ComputedOrderBy ==
    IF result.mode = "noCursor" THEN args.orderBy ELSE buildOrderBy(RefState, Direction)

\* limit and orderBy reach the store as the function computes them
LimitAndOrderOwned ==
    /\ Prop(result.sent.findOptions, "limit") = ComputedLimit
    /\ Prop(result.sent.findOptions, "orderBy") = ComputedOrderBy

\* every option other than limit, offset, orderBy reaches the store as given
OthersPassedThrough ==
    \A i \in 1..Len(options.v) :
        options.v[i].k \notin OwnedOptions
            => Prop(result.sent.findOptions, options.v[i].k) = options.v[i].v

\* C17 - ownership of limit / offset / order: in every mode, the limit,
\* offset and orderBy that reach em.find are those the function computes; a
\* limit, offset or orderBy the caller puts in options is rejected with an
\* error or does not reach em.find, and every other option (populate) is
\* passed through unchanged.
C17_LimitOffsetOrderOwned ==
    (Returned /\ result.t = "page")
        => /\ LimitAndOrderOwned
           /\ ~HasProp(result.sent.findOptions, "offset")
           /\ OthersPassedThrough

-----------------------------------------------------------------------------
(* C18 *)

\* C18 - edge cursors are mode-independent: for every row returned as an
\* edge of a first page, a forward page or a backward page, the edge's
\* cursor is Cursor.fromEntity(row, orderBy of the initial request)
\* .toBase64(): original tags, original key precedence.
C18_EdgeCursorsModeIndependent ==
    (Returned /\ result.t = "page")
        => \A i \in 1..Len(result.edges) :
              result.edges[i].cursor = TokenOf(result.edges[i].node)

-----------------------------------------------------------------------------
(* C19 *)

\* the tag reverses the tag: opposite direction, opposite null placement
\* (whatever the store's default placement is), same spelling
Opposite(o, r) ==
    /\ r \in QueryOrder
    /\ IsAscending(r) # IsAscending(o)
    /\ HasNullPolicy(r) = HasNullPolicy(o)
    /\ \A nullsDefaultSmall \in BOOLEAN :
          NullsFirst(r, nullsDefaultSmall) # NullsFirst(o, nullsDefaultSmall)
    /\ (r \in UpperOrders) = (o \in UpperOrders)

\* an ordering with every tag replaced by its reverse, the paths kept
RECURSIVE Reversed(_)
Reversed(orderBy) ==
    Obj([i \in 1..Len(orderBy.v) |->
            Entry(orderBy.v[i].k,
                  IF orderBy.v[i].v.t = "string"
                  THEN Str(reverseQueryOrder[orderBy.v[i].v.v])
                  ELSE Reversed(orderBy.v[i].v))])

\* C19 - order reversal is a total involution: the table maps every order
\* tag (12 spellings) to the tag of the opposite direction and opposite
\* null placement, reversing twice gives the tag back, and Cursor.orderBy
\* ({direction: 'backward'}) puts at each key's path the reverse of the
\* key's tag (forward: the tag itself); reversing the backward ordering
\* gives the forward ordering.
C19_ReversalInvolution ==
    /\ DOMAIN reverseQueryOrder = QueryOrder
    /\ \A o \in QueryOrder :
          /\ Opposite(o, reverseQueryOrder[o])
          /\ reverseQueryOrder[reverseQueryOrder[o]] = o
    /\ (IsCursor(held) /\ ordering # Null)
          => /\ \A i \in 1..Len(held.state) :
                   get(ordering.orderBy, held.state[i].key) =
                       Str(IF ordering.direction = "forward" THEN held.state[i].order
                           ELSE reverseQueryOrder[held.state[i].order])
             /\ Len(OrderKeys(ordering.orderBy)) = Len(held.state)
             /\ ordering.direction = "backward"
                   => /\ Reversed(ordering.orderBy) = buildOrderBy(held.state, "forward")
                      /\ ordering.orderBy = Reversed(buildOrderBy(held.state, "forward"))

\* the backward ordering of a cursor of several keys, two of them through a
\* relation, with a null policy on one
C19_Witness ==
    /\ IsCursor(held) /\ ordering # Null
    /\ ordering.direction = "backward"
    /\ Cardinality({i \in 1..Len(held.state) : Len(held.state[i].key) = 2}) = 2
    /\ \E i \in 1..Len(held.state) : HasNullPolicy(held.state[i].order)
    /\ ordering.orderBy # buildOrderBy(held.state, "forward")

-----------------------------------------------------------------------------
(* C20 *)

\* C20 - startCursor / endCursor: in every mode, pageInfo.startCursor and
\* pageInfo.endCursor are present iff the page has an edge; startCursor is
\* the cursor of the first edge and endCursor the cursor of the last edge
\* (the same for a page of one edge); both are absent on an empty page.
C20_StartEndCursor ==
    (Returned /\ result.t = "page")
        => /\ Supplied(result.pageInfo.startCursor) <=> result.edges # <<>>
           /\ Supplied(result.pageInfo.endCursor) <=> result.edges # <<>>
           /\ result.edges # <<>>
                => /\ result.pageInfo.startCursor = result.edges[1].cursor
                   /\ result.pageInfo.endCursor = result.edges[Len(result.edges)].cursor
                   /\ result.pageInfo.startCursor.t = "string"
                   /\ result.pageInfo.endCursor.t = "string"
           /\ Len(result.edges) = 1 => result.pageInfo.startCursor = result.pageInfo.endCursor

\* a backward page of two edges: the two cursors differ
C20_Witness ==
    /\ Returned /\ result.t = "page"
    /\ result.mode = "backward"
    /\ Len(result.edges) = 2
    /\ result.pageInfo.startCursor = result.edges[1].cursor
    /\ result.pageInfo.endCursor = result.edges[2].cursor
    /\ result.pageInfo.startCursor # result.pageInfo.endCursor

-----------------------------------------------------------------------------
(* C21 *)

RejectedReads == {name \in {"count", "find"} : reads[name].t = "rejected"}

\* the call went as far as its store reads and has returned
ReadsJoined == Returned /\ reads # Null

\* C21 - no partial page on store failure: in every mode, when em.count or
\* em.find fails, the call fails with that store error, as the store raised
\* it, and returns no page; this whichever read fails and whichever settles
\* first (when both fail, the error is that of the read that failed first),
\* and no read is issued a second time.
C21_NoPartialPage ==
    /\ (ReadsJoined /\ RejectedReads # {})
          => /\ result.t = "throw"
             /\ result.v \in StoreErrors
             /\ result.v = reads[rejections(reads)[1]].reason
             /\ result.v \in {reads[name].reason : name \in RejectedReads}
    /\ reads # Null
          => /\ Len(reads.settled) <= 2
             /\ \A i, j \in 1..Len(reads.settled) : i # j => reads.settled[i] # reads.settled[j]

\* a backward call whose count was answered before its fetch failed
C21_Witness ==
    /\ ReadsJoined
    /\ backwardPagination(args)
    /\ reads.settled = <<"count", "find">>
    /\ reads.count.t = "fulfilled"
    /\ reads.find.t = "rejected"
    /\ result = Failed(reads.find.reason)

-----------------------------------------------------------------------------
(* C22 *)

\* the pages the call gives on an unchanging store that holds the given rows
PagesOn(rows) ==
    {Outcome(o) : o \in cursorPaginationFind(args, baseWhere, options, rows, nullsSmall)}

\* C22 - single-state consistency under concurrent writers: every page a
\* call returns is the page of one state the store was in during the call
\* (totalCount, the edges and the flags all belong to that one state), also
\* when other clients insert or delete rows while the count and the fetch
\* are in flight.
C22_SingleStateConsistency ==
    (ReadsJoined /\ result.t = "page")
        => \E rows \in reads.seen : Outcome(result) \in PagesOn(rows)

\* the same for the calls during which no other client wrote
C22_ConsistentWithoutWriters ==
    (ReadsJoined /\ result.t = "page" /\ reads.writes = 0)
        => Outcome(result) \in PagesOn(store)

-----------------------------------------------------------------------------
(* C23 *)

\* Cursor.where has been called on a cursor built from a row
WhereCalled == IsCursor(held) /\ clauses # Null

\* the key's null policy puts nulls on the side the walk goes toward / comes from
NullsToward(order, direction) ==
    IF direction = "forward"
    THEN CaseGroup(order) \in {"ASC_NULLS_LAST", "DESC_NULLS_LAST"}
    ELSE CaseGroup(order) \in {"ASC_NULLS_FIRST", "DESC_NULLS_FIRST"}

NullsAway(order, direction) ==
    IF direction = "forward"
    THEN CaseGroup(order) \in {"ASC_NULLS_FIRST", "DESC_NULLS_FIRST"}
    ELSE CaseGroup(order) \in {"ASC_NULLS_LAST", "DESC_NULLS_LAST"}

\* the clause of the tuple drops out: a null reference value, nulls ahead
Drops(tuple, direction) == tuple.value.t = "null" /\ NullsToward(tuple.order, direction)

\* the key positions whose clause is emitted, in order
KeptKeys(state, direction) ==
    SelectSeq([i \in 1..Len(state) |-> i], LAMBDA i : ~Drops(state[i], direction))

\* the paths a filter object constrains, given the paths that are keys
RECURSIVE Constrained(_, _, _)
Constrained(o, prefix, keys) ==
    UNION {LET k == o.v[n].k
               v == o.v[n].v
           IN  IF k \in {"$or", "$and"}
               THEN UNION {Constrained(v.v[m], prefix, keys) : m \in 1..Len(v.v)}
               ELSE IF Append(prefix, k) \in keys THEN {Append(prefix, k)}
               ELSE IF v.t = "object" THEN Constrained(v, Append(prefix, k), keys)
               ELSE {Append(prefix, k)} :
           n \in 1..Len(o.v)}

\* a strict comparison: {$gt: x}, {$lt: x}, or {$ne: null}
IsStrict(c) ==
    /\ IsOperatorObject(c)
    /\ Len(c.v) = 1
    /\ c.v[1].k \in {"$gt", "$lt"} \/ (c.v[1].k = "$ne" /\ c.v[1].v = Null)

\* the $or / $and group that stands where the key would, or undefined
GroupAt(clause, key, group) == get(clause, Append(SubSeq(key, 1, Len(key) - 1), group))

\* the clause compares the key strictly: directly, or as the first arm of
\* the $or / $and group that stands in the key's place
StrictlyCompared(clause, key) ==
    \/ IsStrict(get(clause, key))
    \/ /\ get(clause, key) = Undefined
       /\ \E group \in {"$or", "$and"} :
             /\ GroupAt(clause, key, group).t = "array"
             /\ Len(GroupAt(clause, key, group).v) = 2
             /\ Len(GroupAt(clause, key, group).v[1].v) = 1
             /\ GroupAt(clause, key, group).v[1].v[1].k = key[Len(key)]
             /\ IsStrict(GroupAt(clause, key, group).v[1].v[1].v)

\* C23 - tie-break chain: for every cursor and direction, the clause
\* generated for key position i compares key i strictly (never by
\* equality), sets each key before i equal to the reference row's recorded
\* value (null included, also for keys whose own clause dropped out), and
\* constrains no key after i.
C23_TieBreakChain ==
    WhereCalled
        => LET state == held.state
               kept == KeptKeys(state, clauses.direction)
               keys == {state[j].key : j \in 1..Len(state)}
           IN  /\ Len(clauses.where) = Len(kept)
               /\ \A n \in 1..Len(kept) :
                     LET i == kept[n]
                         c == clauses.where[n]
                     IN  /\ StrictlyCompared(c, state[i].key)
                         /\ \A j \in 1..(i - 1) : get(c, state[j].key) = state[j].value
                         /\ Constrained(c, <<>>, keys) = {state[j].key : j \in 1..i}

\* keys [age ASC, id DESC] with the reference row (age 20, id 1), walked
\* forward: [{age: {$gt: 20}}, {age: 20, id: {$lt: 1}}]
C23_Witness ==
    /\ WhereCalled
    /\ clauses.direction = "forward"
    /\ held.state = <<Tuple(<<"age">>, "ASC", Num(20)), Tuple(<<"id">>, "DESC", Num(1))>>
    /\ clauses.where = <<Obj(<<Entry("age", Op("$gt", Num(20)))>>),
                         Obj(<<Entry("id", Op("$lt", Num(1))), Entry("age", Num(20))>>)>>

-----------------------------------------------------------------------------
(* C24 *)

\* the clause list Cursor.where returned to the call, as it reached the
\* store: {$and: [where, {$or: clauses}]}
SentClauses == Prop(Prop(result.sent.findWhere, "$and").v[2], "$or").v

\* C24 - null reference values: when the reference value at a key is null,
\* the clause of that key compares it with {$ne: null} when the key's nulls
\* sit on the side being walked away from (forward with NULLS_FIRST,
\* backward with NULLS_LAST) and is dropped when they sit on the side being
\* walked toward (forward with NULLS_LAST, backward with NULLS_FIRST);
\* dropped clauses are omitted, never emitted empty, so that fewer clauses
\* than keys come back, and none when every clause drops, in which case the
\* page has no edges.
C24_NullReference ==
    (Returned /\ CursorCall /\ result.t = "page")
        => LET state == RefState
               kept == KeptKeys(state, Direction)
           IN  /\ Len(SentClauses) = Len(kept)
               /\ \A n \in 1..Len(SentClauses) : KeyCount(SentClauses[n]) > 0
               /\ \A n \in 1..Len(kept) :
                     (state[kept[n]].value.t = "null" /\ NullsAway(state[kept[n]].order, Direction))
                         => get(SentClauses[n], state[kept[n]].key) = Op("$ne", Null)
               /\ (\A i \in 1..Len(state) : Drops(state[i], Direction))
                     => /\ SentClauses = <<>>
                        /\ result.edges = <<>>

\* a backward call from a row whose first key is null under NULLS_FIRST and
\* whose second is not: one clause for two keys; and the store holds a row
\* that the empty clause would let through
C24_Witness ==
    /\ Returned /\ BackwardCall /\ result.t = "page"
    /\ Len(RefState) = 2
    /\ Drops(RefState[1], "backward")
    /\ Len(SentClauses) = 1
    /\ Cardinality(store) > 1

\* a forward call from a row whose only key is null under NULLS_LAST: no
\* clause at all, and an empty page of a store that holds rows
C24_EveryClauseDrops ==
    /\ Returned /\ ForwardCall /\ result.t = "page"
    /\ Len(RefState) = 1
    /\ Drops(RefState[1], "forward")
    /\ SentClauses = <<>>
    /\ result.edges = <<>>
    /\ Cardinality(store) > 1

-----------------------------------------------------------------------------
(* C25 *)

\* the walk goes toward larger values of the key: forward ASC*, backward DESC*
TowardLarger(order, direction) == IsAscending(order) <=> direction = "forward"

\* C25 - null admission for a non-null reference value: the clause of a key
\* with a non-null reference value compares with $gt when the walk goes
\* toward larger values (forward ASC*, backward DESC*) and with $lt
\* otherwise; when the key's null policy puts nulls on the side walked
\* toward, the clause is the $or of that comparison with `value is null`;
\* when it puts them on the side walked away from, the $and of the
\* comparison with `value is not null`; without a null policy, the bare
\* comparison.  For a key under a relation the $or / $and stands under the
\* relation path, not at top level.
C25_NullAdmission ==
    WhereCalled
        => LET state == held.state
               direction == clauses.direction
               kept == KeptKeys(state, direction)
           IN  /\ Len(clauses.where) = Len(kept)
               /\ \A n \in 1..Len(kept) :
                     LET key == state[kept[n]].key
                         order == state[kept[n]].order
                         value == state[kept[n]].value
                         prop == key[Len(key)]
                         c == clauses.where[n]
                         cmp == Op(IF TowardLarger(order, direction) THEN "$gt" ELSE "$lt", value)
                     IN  value.t # "null"
                            => /\ NullsToward(order, direction)
                                    => /\ GroupAt(c, key, "$or")
                                            = Arr(<<PropIs(prop, cmp), PropIs(prop, Null)>>)
                                       /\ GroupAt(c, key, "$and") = Undefined
                                       /\ get(c, key) = Undefined
                               /\ NullsAway(order, direction)
                                    => /\ GroupAt(c, key, "$and")
                                            = Arr(<<PropIs(prop, cmp), PropIs(prop, Op("$ne", Null))>>)
                                       /\ GroupAt(c, key, "$or") = Undefined
                                       /\ get(c, key) = Undefined
                               /\ ~HasNullPolicy(order)
                                    => /\ get(c, key) = cmp
                                       /\ GroupAt(c, key, "$or") = Undefined
                                       /\ GroupAt(c, key, "$and") = Undefined
                               /\ Len(key) > 1 => ~HasProp(c, "$or") /\ ~HasProp(c, "$and")

\* a key under a relation with nulls ahead: the $or under the relation path,
\* {parent1: {$or: [{age: {$gt: 50}}, {age: null}]}}
C25_Witness ==
    /\ WhereCalled
    /\ clauses.direction = "forward"
    /\ held.state[1] = Tuple(<<"parent1", "age">>, "ASC_NULLS_LAST", Num(50))
    /\ clauses.where[1] =
          Obj(<<Entry("parent1",
                      Obj(<<Entry("$or", Arr(<<PropIs("age", Op("$gt", Num(50))),
                                               PropIs("age", Null)>>))>>))>>)

-----------------------------------------------------------------------------
(* C26 *)

\* no two tuples of the cursor share their path
DistinctPaths(state) ==
    \A i, j \in 1..Len(state) : i # j => state[i].key # state[j].key

\* the keys under one relation stand next to each other in the cursor
RelationKeysAdjacent(state) ==
    \A i, j \in 1..Len(state) :
        (i < j /\ Len(state[i].key) > 1 /\ Len(state[j].key) > 1
               /\ state[i].key[1] = state[j].key[1])
            => \A k \in i..j : Len(state[k].key) > 1 /\ state[k].key[1] = state[i].key[1]

\* C26 - forward ordering preserves the sort spec: for every cursor with
\* distinct paths, walking Cursor.orderBy({direction: 'forward'}) depth
\* first, as fromEntity walks a declaration, gives the cursor's (path, tag)
\* pairs in the cursor's own order, also when the keys under one relation
\* are not adjacent (e.g. [parent1.age, age, parent1.id]).
C26_ForwardOrderingPreserved ==
    (IsCursor(held) /\ ordering # Null /\ ordering.direction = "forward"
        /\ DistinctPaths(held.state))
        => OrderKeys(ordering.orderBy) = StateKeys(held.state)

\* the same for the cursors whose keys under one relation are adjacent
C26_PreservedWhenAdjacent ==
    (IsCursor(held) /\ ordering # Null /\ ordering.direction = "forward"
        /\ DistinctPaths(held.state) /\ RelationKeysAdjacent(held.state))
        => OrderKeys(ordering.orderBy) = StateKeys(held.state)

-----------------------------------------------------------------------------
(* C27 *)

\* what a row holds at a path: undefined when a segment is missing or is
\* reached through something that is not an object
RECURSIVE Reach(_, _)
Reach(o, paths) ==
    IF Len(paths) = 0 THEN o
    ELSE IF o.t # "object" THEN Undefined
    ELSE Reach(Prop(o, Head(paths)), Tail(paths))

\* the value a cursor records for a row at a path: null when there is none
Recorded(row, paths) == IF IsNullish(Reach(row, paths)) THEN Null ELSE Reach(row, paths)

\* the cursor is the one of the row under the declaration: one tuple per
\* leaf of the declaration, in the order of the depth-first walk of its
\* clauses, each with the leaf's path and tag and the row's value
TuplePerLeaf(state, row, orderBy) ==
    /\ Len(state) = Len(OrderKeys(orderBy))
    /\ \A i \in 1..Len(state) :
          /\ state[i].key = OrderKeys(orderBy)[i].key
          /\ state[i].order = OrderKeys(orderBy)[i].order
          /\ state[i].value = Recorded(row, state[i].key)

\* C27 - cursor construction from a row: the cursor Cursor.fromEntity
\* produces has exactly one tuple (path, tag, value) per leaf of the
\* ordering declaration, depth first within a clause and in input order
\* across clauses, so that the tuples are as many as the sort keys and
\* correspond to them position by position; the value is the row's field at
\* that path, resolved through relations.
C27_TuplePerLeaf ==
    IsCursor(held) => \E row \in store : TuplePerLeaf(held.state, row, orderDecl)

\* a cursor of three keys, two of them leaves of one nested clause
C27_Witness ==
    /\ IsCursor(held)
    /\ orderDecl.t = "object"
    /\ Len(held.state) = 3
    /\ held.state[1].key = <<"parent1", "age">>
    /\ held.state[2] = Tuple(<<"parent1", "id">>, "DESC", Num(2))
    /\ held.state[3] = Tuple(<<"id">>, "asc", Num(1))
    /\ held.state[1].value = Num(50)

-----------------------------------------------------------------------------
(* C28 *)

\* the row has no related row where a key of the declaration goes through one
RelationIsNull(row, orderBy) ==
    \E i \in 1..Len(OrderKeys(orderBy)) :
        /\ Len(OrderKeys(orderBy)[i].key) > 1
        /\ Prop(row, OrderKeys(orderBy)[i].key[1]) = Null

\* C28 - absent values become null without error: Cursor.fromEntity
\* records null for a sort key whenever the row has no value at that path,
\* when the field is undefined and also when the path goes through a
\* relation that is missing or null on the row; no error is raised.
C28_AbsentValuesBecomeNull ==
    held # Null
        => /\ IsCursor(held)
           /\ \E row \in store : TuplePerLeaf(held.state, row, orderDecl)

\* a row on which the relation is undefined gives a cursor that records null
C28_MissingRelationRecordsNull ==
    /\ IsCursor(held)
    /\ held.state[1].key = <<"parent1", "age">>
    /\ held.state[1].value = Null
    /\ \E row \in store :
          /\ Prop(row, "parent1") = Undefined
          /\ TuplePerLeaf(held.state, row, orderDecl)
          /\ \A other \in store \ {row} : ~TuplePerLeaf(held.state, other, orderDecl)

\* an error is raised only for a row whose relation is null
C28_ErrorOnlyForNullRelation ==
    (held # Null /\ ~IsCursor(held))
        => /\ held = Throw("TypeError")
           /\ \E row \in store : RelationIsNull(row, orderDecl)

-----------------------------------------------------------------------------
(* C29 *)

\* the cursor with the same paths and values and every tag reversed
ReversedTags(state) ==
    [i \in 1..Len(state) |->
        Tuple(state[i].key, reverseQueryOrder[state[i].order], state[i].value)]

\* C29 - predicate / order mirror consistency: for every cursor, the clause
\* list of where({direction: 'backward'}) is the clause list that
\* where({direction: 'forward'}) gives for the cursor with the same paths
\* and values and every tag replaced by its reversed tag: the backward
\* predicate table and the reversal table describe the same opposite walk,
\* for all tags and for null and non-null reference values.
C29_MirrorConsistency ==
    (WhereCalled /\ clauses.direction = "backward")
        => clauses.where = buildWhereOr(ReversedTags(held.state), "forward")

\* a backward walk from a cursor with a null and a non-null reference
\* value under null policies: its clauses are not those of the forward walk
C29_Witness ==
    /\ WhereCalled /\ clauses.direction = "backward"
    /\ \E i, j \in 1..Len(held.state) :
          /\ held.state[i].value = Null /\ HasNullPolicy(held.state[i].order)
          /\ held.state[j].value # Null /\ HasNullPolicy(held.state[j].order)
    /\ clauses.where # <<>>
    /\ clauses.where # buildWhereOr(held.state, "forward")

-----------------------------------------------------------------------------
(* C30 *)

\* set has been called
SetCalled == access # Null /\ access.op = "set"

\* every container on the way to the last segment is there as an object, or
\* is missing
ContainersMissingOrThere(o, paths) ==
    \A n \in 1..(Len(paths) - 1) :
        Reach(o, SubSeq(paths, 1, n)).t \in {"object", "undefined"}

\* along the path, every entry beside the path is what it was
RECURSIVE BesideKept(_, _, _)
BesideKept(before, after, paths) ==
    \/ Len(paths) = 0
    \/ /\ after.t = "object"
       /\ before.t = "object"
             => \A n \in 1..Len(before.v) :
                   before.v[n].k # Head(paths)
                       => Prop(after, before.v[n].k) = before.v[n].v
       /\ BesideKept(Prop(before, Head(paths)), Prop(after, Head(paths)), Tail(paths))

\* the containers that were missing are made as objects holding nothing but
\* the next segment
CreatedEmpty(before, after, paths) ==
    \A n \in 1..(Len(paths) - 1) :
        Reach(before, SubSeq(paths, 1, n)).t = "undefined"
            => /\ Reach(after, SubSeq(paths, 1, n)).t = "object"
               /\ KeyCount(Reach(after, SubSeq(paths, 1, n))) = 1

\* what set does to the object: no failure for a missing container, the
\* value at the last segment, missing containers made empty, every other
\* entry kept
SetEffect ==
    /\ ~IsThrow(access.after)
    /\ Reach(access.after, access.path) = access.value
    /\ CreatedEmpty(access.o, access.after, access.path)
    /\ BesideKept(access.o, access.after, access.path)

\* C30 - PathAccessor.set: set(root, path, value) makes every missing
\* intermediate container as an empty object, writes value at the final
\* segment, leaves every other entry of root as it was, never fails because
\* an intermediate container is missing, and returns the (mutated) root, for
\* paths of one segment and of several alike.
C30_SetReturnsRoot ==
    (SetCalled /\ ContainersMissingOrThere(access.o, access.path))
        => /\ SetEffect
           /\ access.returned = access.after

\* the same without the returned value
C30_SetEffect ==
    (SetCalled /\ ContainersMissingOrThere(access.o, access.path)) => SetEffect

\* the returned value: the root for a path of one segment, the container of
\* the last segment for a longer path
C30_SetReturnsContainer ==
    (SetCalled /\ ContainersMissingOrThere(access.o, access.path))
        => /\ Len(access.path) = 1 => access.returned = access.after
           /\ Len(access.path) > 1
                 => /\ access.returned # access.after
                    /\ access.returned = Reach(access.after, SubSeq(access.path, 1, Len(access.path) - 1))
                    /\ Prop(access.returned, access.path[Len(access.path)]) = access.value

=============================================================================
